---- MODULE Spec2Model ----
(***************************************************************************)
(* A model of the LLM call / sanitize / refine / optimize core of          *)
(* extract-LLM.                                                            *)
(*                                                                         *)
(*   Spec          call_api            (api_interface.py)                  *)
(*   SpecBackoff   exponential_backoff (api_interface.py)                  *)
(*   SpecRefine    refine_section      (iterative_refiner.py)              *)
(*   SpecSanitize  clean_api_response  (job_extractor.py,                  *)
(*                                      MODULES/job_extractor.py),         *)
(*                 _clean_api_response (resume_extractor.py)               *)
(*   SpecSkills    optimize_skills     (match_optimizer.py)                *)
(*   SpecOptimize  optimize_match      (match_optimizer.py,                *)
(*                                      MODULES/match_optimizer.py)        *)
(*   SpecPairs     pair_skills_by_length       (placeholder_matcher.py)    *)
(*   SpecSlots     extract_skill_placeholders  (placeholder_matcher.py)    *)
(*   SpecTemplate  validate_template           (placeholder_matcher.py)    *)
(*   SpecAudit     call_api with its audit writes (api_interface.py,       *)
(*                 logging_manager.py, MODULES/logging_manager.py)         *)
(*   SpecPrompts   refine_section with any prompt file                     *)
(*                                             (iterative_refiner.py)      *)
(*   SpecPipeline  process_pipeline    (main.py, MODULES/main.py)          *)
(*   SpecCallId    call_api over call_litellm, the call ids of the entries *)
(*                 (api_interface.py, litellm_file_handler.py)             *)
(*   SpecExtract   extract_job_data    (job_extractor.py,                  *)
(*                                      MODULES/job_extractor.py)          *)
(*   SpecGateway   call_api over call_openai and its retry decorator       *)
(*                 (api_interface.py, litellm_file_handler.py,             *)
(*                  MODULES/litellm_file_handler.py)                       *)
(*   SpecInject    inject_content      (resume_builder.py,                 *)
(*                                      MODULES/resume_builder.py)         *)
(*                                                                         *)
(* Every specification shares the one variable tuple; the part a           *)
(* specification does not exercise stays at its idle value.  Calls to the  *)
(* audit sink (log_process, log_api_call) are taken to return normally in  *)
(* every specification but SpecAudit and SpecPipeline, where a write may   *)
(* fail, and the prompt template file is taken to be present with every    *)
(* prompt key in every specification but SpecPrompts.                      *)
(***************************************************************************)
EXTENDS Integers, Sequences, FiniteSets, TLC

VARIABLES
    \* CONFIG (config_manager.py)
    max_attempts, initial_delay, max_delay, multiplier,
    \* call_api (api_interface.py)
    pc, model, attempt, last_error, events, outcome, result, raised,
    \* exponential_backoff called on its own
    b_attempt, b_delay,
    \* refine_section (iterative_refiner.py)
    r_pc, section_name, max_iterations, text, original_text, iteration,
    r_calls, r_exit, r_outcome, r_result, prompts,
    \* the response sanitizers (job_extractor.py, resume_extractor.py)
    s_pc, s_response, allow_partial, s_fn, s_out,
    \* optimize_skills (match_optimizer.py)
    k_pc, k_skills, k_reply, k_calls, k_out,
    \* optimize_match (match_optimizer.py, MODULES/match_optimizer.py)
    o_pc, o_variant, o_resumes, o_stage, o_stage_calls, o_calls, o_inflight,
    o_completed, o_eval, o_failed, o_out,
    \* PlaceholderMatcher (placeholder_matcher.py)
    t_pc, t_template, t_out, p_pc, p_slots, p_len, p_pairs,
    \* call_api with its audit writes (api_interface.py, logging_manager.py)
    a_pc, a_variant, a_verbose, a_attempt, a_error, a_last_error, a_text,
    a_log, a_failures, a_out,
    \* process_pipeline (main.py, MODULES/main.py)
    j_pc, j_variant, j_jobs, j_index, j_visited, j_completed, j_errors,
    j_failures, j_out,
    \* call_api and call_litellm with their call ids
    c_pc, c_variant, c_verbose, c_attempt, c_call_id, c_clock, c_entries, c_out,
    \* extract_job_data (job_extractor.py, MODULES/job_extractor.py)
    x_pc, x_variant, x_result, x_allow, x_path, x_job_data, x_out,
    \* the gateway tries of one call_api run with the openai provider
    g_pc, g_variant, g_attempt, g_tries, g_requests, g_failed, g_out,
    \* a document handed to validate_template and to inject_content
    d_pc, d_doc, d_bullets, d_valid

cfgVars == <<max_attempts, initial_delay, max_delay, multiplier>>
invVars == <<pc, model, attempt, last_error, events, outcome, result, raised>>
boVars  == <<b_attempt, b_delay>>
refVars == <<r_pc, section_name, max_iterations, text, original_text, iteration,
             r_calls, r_exit, r_outcome, r_result, prompts>>
sanVars == <<s_pc, s_response, allow_partial, s_fn, s_out>>
skVars  == <<k_pc, k_skills, k_reply, k_calls, k_out>>
optVars == <<o_pc, o_variant, o_resumes, o_stage, o_stage_calls, o_calls,
             o_inflight, o_completed, o_eval, o_failed, o_out>>
pmVars  == <<t_pc, t_template, t_out, p_pc, p_slots, p_len, p_pairs>>
audVars == <<a_pc, a_variant, a_verbose, a_attempt, a_error, a_last_error,
             a_text, a_log, a_failures, a_out>>
pipeVars == <<j_pc, j_variant, j_jobs, j_index, j_visited, j_completed, j_errors,
              j_failures, j_out>>
idVars == <<c_pc, c_variant, c_verbose, c_attempt, c_call_id, c_clock, c_entries, c_out>>
exVars == <<x_pc, x_variant, x_result, x_allow, x_path, x_job_data, x_out>>
gwVars == <<g_pc, g_variant, g_attempt, g_tries, g_requests, g_failed, g_out>>
injVars == <<d_pc, d_doc, d_bullets, d_valid>>
lateVars == <<pipeVars, idVars, exVars, gwVars, injVars>>
restVars == <<skVars, optVars, pmVars, audVars, lateVars>>
vars    == <<cfgVars, invVars, boVars, refVars, sanVars, restVars>>

\* ------------------------------------------------------------- bounds

\* Largest API_MAX_ATTEMPTS explored with the audit writes, and the largest
\* number of audit writes that fail during one call_api.
MaxAuditAttempts == 2
MaxSinkFailures == 1

\* Largest number of jobs handed to the optimizing loop of process_pipeline,
\* and the largest number of log writes that fail during one run of it.
MaxJobs == 3
MaxLogFailures == 2

\* Largest API_MAX_ATTEMPTS explored with the call ids, and the last
\* reading of the clock.
MaxIdAttempts == 2
MaxClock == 3
MaxGatewayAttempts == 3
MaxBullets == 2

\* Largest number written in a skill marker of a template.
MaxMarkerNumber == 11

\* Largest slot number handed to pair_skills_by_length, and the largest
\* length of a skill text.
MaxSlots == 5
MaxValueLen == 2

\* Largest number of model calls one stage of optimize_match is followed
\* through (the stage's own call and those of refine_section).
MaxStageCalls == 2

\* Largest number of comma-separated items in a skills reply.
MaxSkillItems == 12

\* Largest API_MAX_ATTEMPTS explored.
MaxAttemptsCap == 5
\* Largest attempt number handed to exponential_backoff on its own.
MaxBackoffAttempt == 8
\* Largest max_iterations handed to refine_section.
MaxIterationsCap == 2
\* Longest token sequence between the commentary around a response.
MaxBodyLen == 3

\* ------------------------------------------------------ config_manager

DEFAULT_API_MAX_ATTEMPTS == 5
DEFAULT_API_INITIAL_DELAY == 2
DEFAULT_API_MAX_DELAY == 60
DEFAULT_API_BACKOFF_MULTIPLIER == 2

\* Python's None, where a string is expected.
None == "None"
\* last_error = None: no exception recorded yet.
NoError == [type |-> "None", msg |-> "", attempt |-> 0]
\* Nothing raised to the caller.
NoRaise == [type |-> "None", cause |-> NoError]
\* An event that carries no gateway response.
NoResponse == [kind |-> "none", text |-> None, err |-> None]

Min(a, b) == IF a <= b THEN a ELSE b

\* b ** e for e >= 0.
RECURSIVE Pow(_, _)
Pow(b, e) == IF e <= 0 THEN 1 ELSE b * Pow(b, e - 1)

\* ------------------------------------------------ exponential_backoff

\* The off-by-one slip: the exponent counts attempts from 0.
exponential_backoff_from_zero(a) ==
    Min(initial_delay * Pow(multiplier, a), max_delay)

exponential_backoff(a) ==
    LET delay == initial_delay * Pow(multiplier, a - 1)
    IN  Min(delay, max_delay)

\* ----------------------------------------------------------- call_api

\* What call_litellm can hand back: the content string of the provider's
\* response (possibly empty), or an LLMError wrapping whatever went wrong.
GatewayContents == {"", "{\"Title\": \"Engineer\"}", "I am not sure."}
GatewayFailures == {"timeout", "HTTP 500"}
GatewayOutcomes ==
    [kind : {"content"}, text : GatewayContents, err : {None}]
      \cup [kind : {"error"}, text : {None}, err : GatewayFailures]

\* A retry policy that also rejects a response for what it says.
TruthyIfJson(response) == response = "{\"Title\": \"Engineer\"}"

\* `not response` is false: a non-empty string.
Truthy(response) == response # ""

\* The exception the try body of one attempt ends with, NoError if it ends
\* with `return raw_response`.
AttemptException(o, k) ==
    IF o.kind = "error"
    THEN [type |-> "LLMError", msg |-> o.err, attempt |-> k]
    ELSE IF ~Truthy(o.text)
    THEN [type |-> "APIInterfaceError", msg |-> "Empty API response", attempt |-> k]
    ELSE NoError

\* Keeps the first failure instead of the latest.
KeepFirstError(prev, e) == IF prev = NoError THEN e ELSE prev

\* last_error = e
RecordError(prev, e) == e

\* An increment that was forgotten.
SameAttempt(a) == a

\* attempt += 1
NextAttempt(a) == a + 1

\* while attempt <= max_attempts
LoopGuard(a) == a <= max_attempts

\* A handler that sleeps after the last attempt too.
MayRetry_Inclusive(a) == a <= max_attempts

\* if attempt < max_attempts
MayRetry(a) == a < max_attempts

CallEvent(k, o) == [ev |-> "call", attempt |-> k, resp |-> o, delay |-> 0]
SleepEvent(k, d) == [ev |-> "sleep", attempt |-> k, resp |-> NoResponse, delay |-> d]

\* CONFIG["LLM_PROVIDER_LIST"].split(","), each stripped.
Providers == {"gpt-4", "claude-2", "llama-2"}
\* The model argument: an explicit override, or None.
ModelArguments == {None, "gpt-4o"}

InvokeIdle ==
    /\ pc = "idle" /\ model = None /\ attempt = 0 /\ last_error = NoError /\ events = <<>>
    /\ outcome = "none" /\ result = None /\ raised = NoRaise

InvokeInit ==
    /\ pc = "start" /\ model \in ModelArguments /\ attempt = 0 /\ last_error = NoError /\ events = <<>>
    /\ outcome = "none" /\ result = None /\ raised = NoRaise

\* Lines 68-82: call id, ceiling, attempt counter, model choice, first log.
CallApiEnter ==
    /\ pc = "start"
    /\ pc' = "loop"
    /\ attempt' = 1
    /\ IF model = None THEN model' \in Providers ELSE model' = model
    /\ last_error' = NoError
    /\ UNCHANGED <<events, outcome, result, raised, cfgVars, boVars, refVars, sanVars, restVars>>

\* One pass of the while loop, lines 84-126: the gateway call, then either
\* the return, or the handler (sleep and go round again, or raise).
CallApiAttempt ==
    /\ pc = "loop"
    /\ LoopGuard(attempt)
    /\ \E o \in GatewayOutcomes :
         LET e == AttemptException(o, attempt) IN
         IF e = NoError
         THEN /\ events' = Append(events, CallEvent(attempt, o))
              /\ pc' = "done"
              /\ outcome' = "returned"
              /\ result' = o.text
              /\ UNCHANGED <<attempt, last_error, raised>>
         ELSE /\ last_error' = RecordError(last_error, e)
              /\ IF MayRetry(attempt)
                 THEN /\ events' = events \o <<CallEvent(attempt, o),
                                              SleepEvent(attempt, exponential_backoff(attempt))>>
                      /\ attempt' = NextAttempt(attempt)
                      /\ UNCHANGED <<pc, outcome, result, raised>>
                 ELSE /\ events' = Append(events, CallEvent(attempt, o))
                      /\ pc' = "done"
                      /\ outcome' = "raised"
                      /\ raised' = [type |-> "APIInterfaceError", cause |-> last_error']
                      /\ UNCHANGED <<attempt, result>>
    /\ UNCHANGED <<model, cfgVars, boVars, refVars, sanVars, restVars>>

\* The loop condition is false and the function body ends: Python returns
\* None.
CallApiFallThrough ==
    /\ pc = "loop"
    /\ ~LoopGuard(attempt)
    /\ pc' = "done"
    /\ outcome' = "returned"
    /\ result' = None
    /\ UNCHANGED <<model, attempt, last_error, events, raised, cfgVars, boVars, refVars, sanVars, restVars>>

\* ------------------------------------------------- response sanitizers

\* A model response, up to the identity of its characters, is a sequence
\* of these tokens:
\*   "{" "}" ","   the characters themselves
\*   "T"   a pair "<key>": "Engineer" whose key is the first required field
\*   "t"   the same pair written with single quotes
\*   "X"   a pair "Extra": "x" whose key is no required field
\*   "1"   the digit 1
\*   "w"   a space
\*   "p"   a word of prose, free of quotes, braces, commas and backquotes
\*   "F"   a fence, three backquotes
\*   "J"   a tagged fence, three backquotes followed by json
CoreTokens == {"{", "}", "T", "t", "X", ",", "1", "w"}

\* s.find(c) + 1: the first position of c, 0 when absent.
RECURSIVE FindFrom(_, _, _)
FindFrom(s, C, i) ==
    IF i > Len(s) THEN 0 ELSE IF s[i] \in C THEN i ELSE FindFrom(s, C, i + 1)
Find(s, C) == FindFrom(s, C, 1)

\* s.rfind(c) + 1: the last position of c, 0 when absent.
RECURSIVE RFindFrom(_, _, _)
RFindFrom(s, C, i) ==
    IF i < 1 THEN 0 ELSE IF s[i] \in C THEN i ELSE RFindFrom(s, C, i - 1)
RFind(s, C) == RFindFrom(s, C, Len(s))

\* c in s
Contains(s, C) == Find(s, C) # 0

\* s.split(c, 1)[1], for c in s
AfterFirst(s, C) == SubSeq(s, Find(s, C) + 1, Len(s))

\* s.split("```", 1)[0]: a tagged fence starts with three backquotes too.
BeforeFence(s) ==
    IF Contains(s, {"F", "J"}) THEN SubSeq(s, 1, Find(s, {"F", "J"}) - 1) ELSE s

\* Lines 139-142: the interior of the first fenced block.
StripFences(s) ==
    IF Contains(s, {"J"}) THEN BeforeFence(AfterFirst(s, {"J"}))
    ELSE IF Contains(s, {"F"}) THEN BeforeFence(AfterFirst(s, {"F"}))
    ELSE s

\* Lines 143-146: response[start_idx:end_idx+1] when both braces occur (the
\* empty string when the last "}" precedes the first "{").
SliceBraces(s) ==
    IF Contains(s, {"{"}) /\ Contains(s, {"}"})
    THEN SubSeq(s, Find(s, {"{"}), RFind(s, {"}"}))
    ELSE s

\* s.strip()
RECURSIVE StripWs(_)
StripWs(s) ==
    IF s = <<>> THEN s
    ELSE IF Head(s) = "w" THEN StripWs(Tail(s))
    ELSE IF s[Len(s)] = "w" THEN StripWs(SubSeq(s, 1, Len(s) - 1))
    ELSE s

\* s.replace("'", '"')
ReplaceQuotes(s) == [i \in 1..Len(s) |-> IF s[i] = "t" THEN "T" ELSE s[i]]

NoWs(s) == SelectSeq(s, LAMBDA c : c # "w")

\* The text between the braces is pair , pair , ... , pair.
PairList(b) ==
    /\ Len(b) % 2 = 1
    /\ \A i \in 1..Len(b) :
         IF i % 2 = 1 THEN b[i] \in {"T", "X"} ELSE b[i] = ","

\* json.loads(s) returns a dict: an object of double-quoted pairs.
IsObject(s) ==
    LET u == NoWs(s) IN
    /\ Len(u) >= 2 /\ u[1] = "{" /\ u[Len(u)] = "}"
    /\ (Len(u) = 2 \/ PairList(SubSeq(u, 2, Len(u) - 1)))

\* json.loads(s) returns an int: digits, whitespace around them allowed.
IsNumber(s) ==
    LET u == StripWs(s) IN u # <<>> /\ \A i \in 1..Len(u) : u[i] = "1"

\* The pairs of s: what json.loads puts in the dict, and what the regex
\* "([^"]+)"\s*:\s*"([^"]+)" of partial_json_salvage finds.
PairsOf(s) == {s[i] : i \in 1..Len(s)} \cap {"T", "X"}

\* json.loads(s): a dict, a number, or JSONDecodeError.
JsonLoads(s) ==
    IF IsObject(s) THEN [kind |-> "dict", pairs |-> PairsOf(s)]
    ELSE IF IsNumber(s) THEN [kind |-> "number", pairs |-> {}]
    ELSE [kind |-> "error", pairs |-> {}]

\* partial_json_salvage(raw_text): ValueError when no pair is found.
partial_json_salvage(s) ==
    IF PairsOf(s) = {} THEN [kind |-> "error", pairs |-> {}]
    ELSE [kind |-> "dict", pairs |-> PairsOf(s)]

JobFields == {"Title", "Company Name", "Location", "field", "Salary",
              "posting_date", "cleaned_description"}
ResumeFields == {"objective", "skills_list", "jobs_section", "education",
                 "certifications"}

\* default_data of clean_api_response
JobDefaults == [k \in JobFields |-> "UNKNOWN"]
\* default_struct of _clean_api_response
ResumeDefaults == [k \in ResumeFields |-> IF k = "objective" THEN "" ELSE "[]"]

\* The dict a set of pairs stands for; `first` is the key of the "T" pair.
DictOf(pairs, first) ==
    [k \in {IF q = "T" THEN first ELSE "Extra" : q \in pairs} |->
        IF k = "Extra" THEN "x" ELSE "Engineer"]

\* result = default.copy(); result.update({k: v for k, v in parsed.items()
\* if k in default})
MergeInto(defaults, parsed) ==
    [k \in DOMAIN defaults |-> IF k \in DOMAIN parsed THEN parsed[k] ELSE defaults[k]]

Returned(rec) == [raised |-> FALSE, rec |-> rec]
Raised == [raised |-> TRUE, rec |-> [k \in {} |-> ""]]

\* if hasattr(response, 'content'): response = response.content
Unwrap(response) ==
    IF response.kind = "envelope" THEN [response EXCEPT !.kind = "str"] ELSE response

\* clean_api_response of job_extractor.py.  Every exception of its body is
\* caught by the handler of lines 164-166, which returns default_data.
clean_api_response(response, allow) ==
    LET r == Unwrap(response)
        cleaned == ReplaceQuotes(StripWs(SliceBraces(StripFences(r.s))))
        loaded == JsonLoads(cleaned)
        parsed == IF r.kind = "str"
                  THEN IF loaded.kind = "error" /\ allow
                       THEN partial_json_salvage(cleaned)
                       ELSE loaded
                  ELSE IF r.kind = "dict"
                  THEN [kind |-> "dict", pairs |-> r.pairs]
                  ELSE [kind |-> "error", pairs |-> {}]
    IN  IF parsed.kind = "dict"
        THEN Returned(MergeInto(JobDefaults, DictOf(parsed.pairs, "Title")))
        ELSE Returned(JobDefaults)

\* `not response`: the empty string, None, the empty dict.
Falsy(response) ==
    \/ response.kind = "none"
    \/ response.kind = "str" /\ response.s = <<>>
    \/ response.kind = "dict" /\ response.pairs = {}

\* Lines 157-160 of resume_extractor.py: the slice is stripped only when
\* it is taken.
SliceBracesStrip(s) ==
    IF Contains(s, {"{"}) /\ Contains(s, {"}"})
    THEN StripWs(SubSeq(s, Find(s, {"{"}), RFind(s, {"}"})))
    ELSE s

\* _clean_api_response of resume_extractor.py.  Nothing catches what its
\* body raises: the ValueError of partial_json_salvage, and the TypeError
\* of `key in parsed` when json.loads returned a number.
resume_clean_api_response(response, allow) ==
    IF Falsy(response) THEN Returned(ResumeDefaults)
    ELSE
    LET r == Unwrap(response)
        cleaned == ReplaceQuotes(SliceBracesStrip(r.s))
        loaded == JsonLoads(cleaned)
    IN  IF r.kind = "str"
        THEN IF loaded.kind = "error"
             THEN IF allow
                  THEN IF partial_json_salvage(cleaned).kind = "error"
                       THEN Raised
                       ELSE Returned(MergeInto(ResumeDefaults,
                                DictOf(partial_json_salvage(cleaned).pairs, "objective")))
                  ELSE Returned(ResumeDefaults)
             ELSE IF loaded.kind = "number"
             THEN Raised
             ELSE Returned(MergeInto(ResumeDefaults, DictOf(loaded.pairs, "objective")))
        ELSE IF r.kind = "dict"
        THEN Returned(MergeInto(ResumeDefaults, DictOf(r.pairs, "objective")))
        ELSE Raised

\* Lines 146-149 of MODULES/job_extractor.py: a brace is put where one is
\* missing.
EnsureBraces(s) ==
    LET a == IF s # <<>> /\ s[1] = "{" THEN s ELSE <<"{">> \o s
    IN  IF a[Len(a)] = "}" THEN a ELSE Append(a, "}")

\* The position of the "}" that ends a match of ,\s*} starting at the
\* comma in position i, 0 when there is no match.
RECURSIVE CommaMatch(_, _)
CommaMatch(s, j) ==
    IF j > Len(s) THEN 0
    ELSE IF s[j] = "w" THEN CommaMatch(s, j + 1)
    ELSE IF s[j] = "}" THEN j ELSE 0

\* re.sub(r',\s*}', '}', response)
RECURSIVE RemoveTrailingCommas(_)
RemoveTrailingCommas(s) ==
    IF s = <<>> THEN s
    ELSE IF Head(s) = "," /\ CommaMatch(s, 2) # 0
    THEN <<"}">> \o RemoveTrailingCommas(SubSeq(s, CommaMatch(s, 2) + 1, Len(s)))
    ELSE <<Head(s)>> \o RemoveTrailingCommas(Tail(s))

\* re.sub(r'\s+', ' ', response)
RECURSIVE CollapseWs(_)
CollapseWs(s) ==
    IF Len(s) < 2 THEN s
    ELSE IF s[1] = "w" /\ s[2] = "w" THEN CollapseWs(Tail(s))
    ELSE <<Head(s)>> \o CollapseWs(Tail(s))

\* Lines 158-160: the repair pass.
Repair(s) == CollapseWs(RemoveTrailingCommas(s))

\* Lines 165-178: the per-field regex search, seeded with the defaults.
RegexFields(s) ==
    IF Contains(s, {"T"}) THEN [JobDefaults EXCEPT !["Title"] = "Engineer"]
    ELSE JobDefaults

\* clean_api_response of MODULES/job_extractor.py: direct parse, repair
\* pass, regex salvage.  Every exception of its body is caught by the
\* handler of lines 191-193, which returns default_data.
modules_clean_api_response(response) ==
    LET r == Unwrap(response)
        cleaned == EnsureBraces(ReplaceQuotes(StripWs(SliceBraces(StripFences(r.s)))))
        first == JsonLoads(cleaned)
        second == JsonLoads(Repair(cleaned))
    IN  IF r.kind = "str"
        THEN IF first.kind = "dict"
             THEN Returned(MergeInto(JobDefaults, DictOf(first.pairs, "Title")))
             ELSE IF second.kind = "dict"
             THEN Returned(MergeInto(JobDefaults, DictOf(second.pairs, "Title")))
             ELSE Returned(MergeInto(JobDefaults, RegexFields(Repair(cleaned))))
        ELSE IF r.kind = "dict"
        THEN Returned(MergeInto(JobDefaults, DictOf(r.pairs, "Title")))
        ELSE Returned(JobDefaults)

\* The text a model puts before and after its JSON: nothing, commentary,
\* a fenced block with or without the json tag, an unclosed fence.
Wrappers == { <<<<>>, <<>>>>,
              <<<<"p">>, <<>>>>,
              <<<<"p">>, <<"p">>>>,
              <<<<"p", "J">>, <<"F", "p">>>>,
              <<<<"F">>, <<"F">>>>,
              <<<<"J">>, <<>>>> }
Bodies == UNION {[1..k -> CoreTokens] : k \in 0..MaxBodyLen}

StrResponse(s) == [kind |-> "str", s |-> s, pairs |-> {}]

\* The values handed to a sanitizer: a string, an envelope whose content
\* field holds a string, a mapping, None.
Responses ==
    {StrResponse(w[1] \o b \o w[2]) : w \in Wrappers, b \in Bodies}
      \cup {[kind |-> "envelope", s |-> b, pairs |-> {}] : b \in Bodies}
      \cup {[kind |-> "dict", s |-> <<>>, pairs |-> q] : q \in SUBSET {"T", "X"}}
      \cup {[kind |-> "none", s |-> <<>>, pairs |-> {}]}

NoOutput == [raised |-> FALSE, rec |-> [k \in {} |-> ""]]

SanitizeIdle ==
    /\ s_pc = "idle" /\ s_response = StrResponse(<<>>) /\ allow_partial = FALSE
    /\ s_fn = "none" /\ s_out = NoOutput

SanitizeCalled ==
    /\ s_pc = "ready" /\ s_response \in Responses /\ allow_partial \in BOOLEAN
    /\ s_fn = "none" /\ s_out = NoOutput

\* job_extractor.clean_api_response(response)
CleanJob ==
    /\ s_pc = "ready"
    /\ s_pc' = "done"
    /\ s_fn' = "job"
    /\ s_out' = clean_api_response(s_response, allow_partial)
    /\ UNCHANGED <<s_response, allow_partial, cfgVars, invVars, boVars, refVars, restVars>>

\* MODULES/job_extractor.clean_api_response(response)
CleanJobModules ==
    /\ s_pc = "ready"
    /\ s_pc' = "done"
    /\ s_fn' = "modules_job"
    /\ s_out' = modules_clean_api_response(s_response)
    /\ UNCHANGED <<s_response, allow_partial, cfgVars, invVars, boVars, refVars, restVars>>

\* resume_extractor._clean_api_response(response)
CleanResume ==
    /\ s_pc = "ready"
    /\ s_pc' = "done"
    /\ s_fn' = "resume"
    /\ s_out' = resume_clean_api_response(s_response, allow_partial)
    /\ UNCHANGED <<s_response, allow_partial, cfgVars, invVars, boVars, refVars, restVars>>

\* ------------------------------------------------------ refine_section

\* A text, up to the identity of its characters: `lead` whitespace
\* characters, then n words of wlen characters each separated by single
\* spaces, then `trail` whitespace characters.
Txt(l, n, w, t) == [lead |-> l, n |-> n, wlen |-> w, trail |-> t]
EmptyText == Txt(0, 0, 0, 0)

\* len(text)
CharCount(t) == t.lead + t.n * t.wlen + (IF t.n > 0 THEN t.n - 1 ELSE 0) + t.trail
\* len(text.split())
WordCount(t) == t.n
\* text.strip()
Strip(t) == [t EXCEPT !.lead = 0, !.trail = 0]
\* int(words * 1.3)
estimate_tokens(t) == (WordCount(t) * 13) \div 10

MAX_OVERVIEW_CHARS == 500
MAX_SKILL_CHARS == 50
MAX_BULLET_CHARS == 200
\* CONTENT_TOLERANCE = 0.1, as the fraction TOLERANCE_NUM / TOLERANCE_DEN.
TOLERANCE_NUM == 1
TOLERANCE_DEN == 10

\* The section names refine_section is called with.
SkillSections == {"skills"}
BulletSections == {"bullet_overview", "bullet_description"}
SectionNames == {"overview", "objective"} \cup SkillSections \cup BulletSections

\* section_name is one validate_section_limits knows.
KnownSection(s) == s = "overview" \/ s \in SkillSections \/ s \in BulletSections

\* validate_section_limits(section_name), for a known section.
validate_section_limits(s) ==
    LET max_chars == IF s = "overview" THEN MAX_OVERVIEW_CHARS
                     ELSE IF s \in SkillSections THEN MAX_SKILL_CHARS
                     ELSE MAX_BULLET_CHARS
    IN  [max_chars |-> max_chars,
         max_words |-> max_chars \div 5,
         max_tokens |-> max_chars \div 4]

\* The break condition of the loop: char_count <= max_chars * (1 + tolerance)
\* and word_count <= max_words and token_count <= max_tokens.
WithinLimits(t, limits) ==
    /\ CharCount(t) * TOLERANCE_DEN <= limits.max_chars * (TOLERANCE_DEN + TOLERANCE_NUM)
    /\ WordCount(t) <= limits.max_words
    /\ estimate_tokens(t) <= limits.max_tokens

\* A loop that runs one iteration too many.
RefineLoopGuardInclusive(it) == it <= max_iterations

\* while iteration < max_iterations
RefineLoopGuard(it) == it < max_iterations

\* if iteration >= max_iterations
FallbackGuard(it) == it >= max_iterations

\* The texts handed to refine_section and produced by the model.
Texts == { EmptyText,
           Txt(2, 0, 0, 0),
           Txt(0, 2, 4, 0),
           Txt(1, 2, 4, 1),
           Txt(0, 9, 5, 0),
           Txt(0, 10, 4, 0),
           Txt(0, 8, 7, 0),
           Txt(0, 120, 5, 0) }

\* What call_api hands back to refine: with a ceiling of at least one
\* attempt a non-empty string or APIInterfaceError, otherwise None (the
\* fall-through of call_api).
ApiReplies ==
    IF max_attempts >= 1
    THEN [kind : {"text"}, text : Texts \ {EmptyText}]
           \cup {[kind |-> "raise", text |-> EmptyText]}
    ELSE {[kind |-> "none", text |-> EmptyText]}

ModelCall(kind, reduction, input, reply) ==
    [kind |-> kind, reduction |-> reduction, input |-> input, reply |-> reply]

\* The keys of STATIC_DATA/prompt_templates/all_prompts.json the refiner
\* reads; a file that is absent or unreadable holds none of them.
PromptKeys == {"section_reduction_prompt", "section_summarization_prompt"}

\* with open(...) as f: prompts = json.load(f); prompts[key]["prompt"],
\* prompts[key]["system_message"]: KeyError (or the error of open) unless
\* the key is there.
PromptLoads(key) == key \in prompts

RefineIdle ==
    /\ r_pc = "idle" /\ section_name = "overview" /\ max_iterations = 0
    /\ text = EmptyText /\ original_text = EmptyText /\ iteration = 0
    /\ r_calls = <<>> /\ r_exit = "none" /\ r_outcome = "none" /\ r_result = EmptyText
    /\ prompts = PromptKeys

\* The arguments and locals of a call of refine_section that has not run yet.
RefineArguments ==
    /\ r_pc = "start"
    /\ section_name \in SectionNames
    /\ max_iterations \in 0..MaxIterationsCap
    /\ text \in Texts
    /\ original_text = EmptyText /\ iteration = 0
    /\ r_calls = <<>> /\ r_exit = "none" /\ r_outcome = "none" /\ r_result = EmptyText

\* A call of refine_section with the prompt file complete.
RefineCalled == RefineArguments /\ prompts = PromptKeys

\* A call of refine_section with any part of the prompt file missing.
RefineCalledAnyPrompts == RefineArguments /\ prompts \in SUBSET PromptKeys

\* raise RefinementError(...) out of refine_section.
RefineRaise ==
    /\ r_pc' = "done"
    /\ r_outcome' = "raised"
    /\ r_result' = EmptyText

\* Lines 110-112: the limits (RefinementError for an unknown section), the
\* copy of the text, the counter.
RefineEnter ==
    /\ r_pc = "start"
    /\ IF KnownSection(section_name)
       THEN /\ r_pc' = "loop"
            /\ original_text' = text
            /\ iteration' = 0
            /\ UNCHANGED <<r_outcome, r_result>>
       ELSE /\ RefineRaise
            /\ UNCHANGED <<original_text, iteration>>
    /\ UNCHANGED <<section_name, max_iterations, text, r_calls, r_exit, prompts>>
    /\ UNCHANGED <<cfgVars, invVars, boVars, sanVars, restVars>>

\* One iteration of the loop that does not break, lines 113-124: the text is
\* over its limits and refine_section_via_llm asks for 10 * (iteration + 1)
\* percent less.
RefineShrink ==
    /\ r_pc = "loop"
    /\ RefineLoopGuard(iteration)
    /\ ~WithinLimits(text, validate_section_limits(section_name))
    /\ IF PromptLoads("section_reduction_prompt")
       THEN \E reply \in ApiReplies :
              /\ r_calls' = Append(r_calls, ModelCall("shrink", 10 * (iteration + 1), text, reply))
              /\ IF reply.kind = "text"
                 THEN /\ text' = Strip(reply.text)
                      /\ iteration' = iteration + 1
                      /\ UNCHANGED <<r_pc, r_outcome, r_result>>
                 ELSE /\ RefineRaise
                      /\ UNCHANGED <<text, iteration>>
       ELSE /\ RefineRaise
            /\ UNCHANGED <<text, iteration, r_calls>>
    /\ UNCHANGED <<section_name, max_iterations, original_text, r_exit, prompts>>
    /\ UNCHANGED <<cfgVars, invVars, boVars, sanVars, restVars>>

\* A fallback that summarizes the text the loop ended with.
FallbackInput_Current == text

\* text=original_text, line 133: what the summarization prompt is given.
FallbackInput == original_text

\* A fallback whose result goes through the acceptance test again.
AfterSummaryRetest(t) ==
    IF WithinLimits(t, validate_section_limits(section_name)) THEN "done" ELSE "loop"

\* Where refine_section goes once the summarization reply is in: line 139.
AfterSummary(t) == "done"

\* The loop is left (its condition is false, or the break was taken) and
\* lines 126-139 run: the summarization fallback when iteration >=
\* max_iterations, then the return.
RefineFinish ==
    /\ r_pc = "loop"
    /\ \/ ~RefineLoopGuard(iteration)
       \/ WithinLimits(text, validate_section_limits(section_name))
    /\ IF FallbackGuard(iteration)
       THEN /\ r_exit' = "exhausted"
            /\ IF PromptLoads("section_summarization_prompt")
               THEN \E reply \in ApiReplies :
                      /\ r_calls' = Append(r_calls, ModelCall("summarize", 0, FallbackInput, reply))
                      /\ IF reply.kind = "text"
                         THEN /\ text' = Strip(reply.text)
                              /\ r_pc' = AfterSummary(text')
                              /\ IF r_pc' = "done"
                                 THEN r_outcome' = "returned" /\ r_result' = text'
                                 ELSE UNCHANGED <<r_outcome, r_result>>
                         ELSE /\ RefineRaise
                              /\ UNCHANGED text
               ELSE /\ RefineRaise
                    /\ UNCHANGED <<text, r_calls>>
       ELSE /\ r_exit' = "accepted"
            /\ r_pc' = "done"
            /\ r_outcome' = "returned"
            /\ r_result' = text
            /\ UNCHANGED <<text, r_calls>>
    /\ UNCHANGED <<section_name, max_iterations, original_text, iteration, prompts>>
    /\ UNCHANGED <<cfgVars, invVars, boVars, sanVars, restVars>>

\* ------------------------------------------------------ optimize_skills
\* match_optimizer.py and MODULES/match_optimizer.py hold the same
\* optimize_skills; the first also draws a provider for call_api.
\*
\* A reply of the model is a sequence of tokens: "," a comma, "w" a space,
\* "a" "b" "c" a word free of commas and spaces.

\* len(skill_list) != 10
SKILL_COUNT == 10

\* A stage that accepts a reply with up to ten items.
CountAccepted_AtMost(n) == n <= SKILL_COUNT

\* not (len(skill_list) != 10)
CountAccepted(n) == n = SKILL_COUNT

\* result.split(","): "" splits into [""].
RECURSIVE Split(_)
Split(s) ==
    IF ~Contains(s, {","}) THEN <<s>>
    ELSE <<SubSeq(s, 1, Find(s, {","}) - 1)>> \o Split(AfterFirst(s, {","}))

\* ", ".join(items)
RECURSIVE Join(_)
Join(items) ==
    IF items = <<>> THEN <<>>
    ELSE IF Len(items) = 1 THEN items[1]
    ELSE items[1] \o <<",", "w">> \o Join(Tail(items))

\* [s.strip() for s in result.split(",")]
skill_list(s) == [i \in 1..Len(Split(s)) |-> StripWs(Split(s)[i])]

SkillWords == <<"a", "b", "c">>
SkillWord(i) == SkillWords[(i % 3) + 1]
Pads == {"none", "lead", "trail", "both", "blank", "inner"}

\* The i-th item of a reply, written with the padding `pad`.
Padded(i, pad) ==
    CASE pad = "lead"  -> <<"w", SkillWord(i)>>
      [] pad = "trail" -> <<SkillWord(i), "w">>
      [] pad = "both"  -> <<"w", "w", SkillWord(i), "w">>
      [] pad = "blank" -> <<"w">>
      [] pad = "inner" -> <<SkillWord(i), "w", SkillWord(i + 1)>>
      [] OTHER         -> <<SkillWord(i)>>

\* n items separated by commas, the k-th written with the padding `pad`.
RECURSIVE RawItems(_, _, _, _)
RawItems(i, n, k, pad) ==
    IF i > n THEN <<>>
    ELSE Padded(i, IF i = k THEN pad ELSE "none")
           \o (IF i < n THEN <<",">> ELSE <<>>)
           \o RawItems(i + 1, n, k, pad)

\* What call_api hands to the stage: a non-empty string, None (only when
\* API_MAX_ATTEMPTS < 1), or APIInterfaceError.
SkillReplies ==
    {[kind |-> "text", s |-> RawItems(1, n, k, pad)] :
        n \in 1..MaxSkillItems, k \in 1..MaxSkillItems, pad \in Pads}
      \cup {[kind |-> "none", s |-> <<>>], [kind |-> "raise", s |-> <<>>]}

StageReturned(v) == [kind |-> "returned", why |-> "", got |-> 0, value |-> v]
\* raise MatchOptimizerError(f"Failed to optimize skills: {e}")
StageRaised(why, got) ==
    [kind |-> "raised", why |-> why, got |-> got, value |-> <<>>]
NoStageOutput == [kind |-> "none", why |-> "", got |-> 0, value |-> <<>>]

\* The value optimize_skills returns or the error it raises, given the
\* skills it was handed and what call_api does.
optimize_skills(skills, reply) ==
    IF ~skills THEN StageRaised("No skills found", 0)
    ELSE IF reply.kind = "raise" THEN StageRaised("APIInterfaceError", 0)
    ELSE IF reply.kind = "none" \/ reply.s = <<>> THEN StageRaised("Empty API response", 0)
    ELSE IF ~CountAccepted(Len(skill_list(reply.s)))
    THEN StageRaised("Expected 10 skills", Len(skill_list(reply.s)))
    ELSE StageReturned(Join(skill_list(reply.s)))

SkillsIdle ==
    /\ k_pc = "idle" /\ k_skills = FALSE /\ k_reply = [kind |-> "none", s |-> <<>>]
    /\ k_calls = 0 /\ k_out = NoStageOutput

SkillsCalled ==
    /\ k_pc = "ready" /\ k_skills \in BOOLEAN /\ k_reply \in SkillReplies
    /\ k_calls = 0 /\ k_out = NoStageOutput

\* optimize_skills(skills, job_description)
OptimizeSkills ==
    /\ k_pc = "ready"
    /\ k_pc' = "done"
    /\ k_calls' = IF k_skills THEN 1 ELSE 0
    /\ k_out' = optimize_skills(k_skills, k_reply)
    /\ UNCHANGED <<k_skills, k_reply, cfgVars, invVars, boVars, refVars, sanVars, optVars, pmVars, audVars, lateVars>>


\* ------------------------------------------------------- optimize_match
\* "src" is match_optimizer.py, "modules" is MODULES/match_optimizer.py.

\* The stages in the order the dict literal and the statement after it
\* evaluate them.
Stages == <<"objective", "skills", "bullets", "evaluation">>
StageSet == {Stages[i] : i \in 1..Len(Stages)}
StageRank(st) == CHOOSE i \in 1..Len(Stages) : Stages[i] = st

\* What the resume store holds: nothing, or resumes with or without
\* objective statements, skills and bullets.
NoResumeData == [loaded |-> FALSE, objectives |-> FALSE, skills |-> FALSE, bullets |-> FALSE]
ResumeData ==
    {NoResumeData} \cup
    [loaded : {TRUE}, objectives : BOOLEAN, skills : BOOLEAN, bullets : BOOLEAN]

\* all_resumes = [] in match_optimizer.py; get_all_resume_data() in
\* MODULES/match_optimizer.py.
VariantResumes(variant) == IF variant = "src" THEN {NoResumeData} ELSE ResumeData

\* The value under match_rating in the evaluation reply.
Rating(type, v) == [type |-> type, v |-> v]
NoRating == Rating("absent", 0)
Ratings == {Rating("int", v) : v \in {-5, 0, 85, 100, 150}}
             \cup {Rating("str", 0), Rating("null", 0)}

\* What call_api hands to evaluate_match, after json.loads.
EvalReply(kind, keys, rating) == [kind |-> kind, keys |-> keys, rating |-> rating]
EvalReplies ==
    {EvalReply(k, {}, NoRating) : k \in {"raise", "none", "notjson", "notdict"}}
      \cup {EvalReply("dict", {"explanation"}, NoRating), EvalReply("dict", {}, NoRating)}
      \cup {EvalReply("dict", keys, r) :
               keys \in {{"match_rating"}, {"match_rating", "explanation"}}, r \in Ratings}
NoEval == EvalReply("none", {}, NoRating)

\* for key in ["match_rating", "explanation"]: if key not in evaluation
evaluate_match(reply) ==
    reply.kind = "dict" /\ {"match_rating", "explanation"} \subseteq reply.keys

\* The replies to the first call of a stage.
SkillStageReplies ==
    {[kind |-> "text", s |-> RawItems(1, n, 1, "none")] :
        n \in {SKILL_COUNT - 1, SKILL_COUNT, SKILL_COUNT + 1}}
      \cup {[kind |-> "none", s |-> <<>>], [kind |-> "raise", s |-> <<>>]}
StageReplies(st) ==
    CASE st = "objective"  -> {"raise", "none", "fits", "long"}
      [] st = "skills"     -> SkillStageReplies
      [] st = "bullets"    -> {"raise", "none", "notjson", "notlist", "fits", "long"}
      [] st = "evaluation" -> EvalReplies

\* "ok" the stage returns, "fail" it raises MatchOptimizerError, "more"
\* refine_section goes on to a model call of its own.
StageOutcome(st, reply) ==
    CASE st = "skills" ->
           IF optimize_skills(TRUE, reply).kind = "returned" THEN "ok" ELSE "fail"
      [] st = "evaluation" -> IF evaluate_match(reply) THEN "ok" ELSE "fail"
      [] OTHER -> IF reply = "fits" THEN "ok" ELSE IF reply = "long" THEN "more" ELSE "fail"

\* if not combined / if not skills / if not bullets
StageInputPresent(st, resumes) ==
    CASE st = "objective" -> resumes.objectives
      [] st = "skills"    -> resumes.skills
      [] st = "bullets"   -> resumes.bullets
      [] OTHER            -> TRUE

\* The bundle of the return statement.
Bundle(completed, rating) == [kind |-> "bundle", fields |-> completed, rating |-> rating]
NoneResult == [kind |-> "None", fields |-> {}, rating |-> NoRating]
NoResult == [kind |-> "none", fields |-> {}, rating |-> NoRating]

\* A handler that hands over what the stages produced so far.
HandlerResult_Partial(completed, eval) == Bundle(completed, eval.rating)

\* except Exception as e: log_process(...); return None
HandlerResult(completed, eval) == NoneResult

\* A stage failure that is skipped over.
AfterFailure_NextStage(st) == IF st = "evaluation" THEN "handler" ELSE "pre"

\* An exception raised by a stage leaves the try body for the handler.
AfterFailure(st) == "handler"

\* `ms < 1` of log_application, outside its try block, raises TypeError
\* for a rating that is not a number.
Orderable(rating) == rating.type = "int"

OptimizeIdle ==
    /\ o_pc = "idle" /\ o_variant = "src" /\ o_resumes = NoResumeData
    /\ o_stage = 0 /\ o_stage_calls = 0 /\ o_calls = <<>> /\ o_inflight = 0
    /\ o_completed = {} /\ o_eval = NoEval /\ o_failed = "" /\ o_out = NoResult

OptimizeCalled ==
    /\ o_pc = "start" /\ o_variant \in {"src", "modules"}
    /\ o_resumes \in VariantResumes(o_variant)
    /\ o_stage = 0 /\ o_stage_calls = 0 /\ o_calls = <<>> /\ o_inflight = 0
    /\ o_completed = {} /\ o_eval = NoEval /\ o_failed = "" /\ o_out = NoResult

OptimizeOthers == <<cfgVars, invVars, boVars, refVars, sanVars, skVars, pmVars, audVars, lateVars>>

\* The stage st raises.
StageFails(st) ==
    /\ o_failed' = st
    /\ o_pc' = AfterFailure(st)
    /\ o_stage' = IF AfterFailure(st) = "pre" THEN o_stage + 1 ELSE o_stage
    /\ o_stage_calls' = 0

\* The stage st returns.
StageCompletes(st) ==
    /\ o_completed' = o_completed \cup {st}
    /\ o_stage_calls' = 0
    /\ IF o_stage < Len(Stages)
       THEN o_stage' = o_stage + 1 /\ o_pc' = "pre"
       ELSE o_stage' = o_stage /\ o_pc' = "post"

\* Loading the resumes and deriving the stage inputs.
OptimizeEnter ==
    /\ o_pc = "start"
    /\ IF o_resumes.loaded
       THEN o_pc' = "pre" /\ o_stage' = 1 /\ o_failed' = o_failed
       ELSE o_pc' = "handler" /\ o_stage' = o_stage /\ o_failed' = "resumes"
    /\ UNCHANGED <<o_variant, o_resumes, o_stage_calls, o_calls, o_inflight,
                   o_completed, o_eval, o_out>>
    /\ UNCHANGED OptimizeOthers

\* A stage checks its input and issues its call_api call.
StageBegin ==
    /\ o_pc = "pre"
    /\ LET st == Stages[o_stage] IN
       IF StageInputPresent(st, o_resumes)
       THEN /\ o_pc' = "wait"
            /\ o_calls' = Append(o_calls, st)
            /\ o_inflight' = o_inflight + 1
            /\ o_stage_calls' = 1
            /\ UNCHANGED <<o_stage, o_failed>>
       ELSE /\ StageFails(st)
            /\ UNCHANGED <<o_calls, o_inflight>>
    /\ UNCHANGED <<o_variant, o_resumes, o_completed, o_eval, o_out>>
    /\ UNCHANGED OptimizeOthers

\* The call resolves and the stage works on the reply.
StageResolve ==
    /\ o_pc = "wait"
    /\ o_inflight' = o_inflight - 1
    /\ LET st == Stages[o_stage] IN
       \E reply \in StageReplies(st) :
          /\ o_eval' = IF st = "evaluation" /\ evaluate_match(reply) THEN reply ELSE o_eval
          /\ CASE StageOutcome(st, reply) = "ok" ->
                    StageCompletes(st) /\ UNCHANGED o_failed
               [] StageOutcome(st, reply) = "more" ->
                    /\ o_pc' = "refine"
                    /\ UNCHANGED <<o_stage, o_stage_calls, o_completed, o_failed>>
               [] OTHER -> StageFails(st) /\ UNCHANGED o_completed
    /\ UNCHANGED <<o_variant, o_resumes, o_calls, o_out>>
    /\ UNCHANGED OptimizeOthers

\* refine_section, called by the objective and bullets stages, issues a
\* call_api call of its own.
RefineIssue ==
    /\ o_pc = "refine"
    /\ o_pc' = "refinewait"
    /\ o_calls' = Append(o_calls, Stages[o_stage])
    /\ o_inflight' = o_inflight + 1
    /\ o_stage_calls' = o_stage_calls + 1
    /\ UNCHANGED <<o_variant, o_resumes, o_stage, o_completed, o_eval, o_failed, o_out>>
    /\ UNCHANGED OptimizeOthers

\* That call resolves: refine_section lets the APIInterfaceError through,
\* returns the text, or goes on to its next call; the text its last call
\* produces is returned as it is.
RefineResolve ==
    /\ o_pc = "refinewait"
    /\ o_inflight' = o_inflight - 1
    /\ LET st == Stages[o_stage] IN
       \E reply \in {"raise", "fits", "long"} :
          CASE reply = "raise" -> StageFails(st) /\ UNCHANGED o_completed
            [] reply = "long" /\ o_stage_calls < MaxStageCalls ->
                 /\ o_pc' = "refine"
                 /\ UNCHANGED <<o_stage, o_stage_calls, o_completed, o_failed>>
            [] OTHER -> StageCompletes(st) /\ UNCHANGED o_failed
    /\ UNCHANGED <<o_variant, o_resumes, o_calls, o_eval, o_out>>
    /\ UNCHANGED OptimizeOthers

\* The status line after the evaluation, then the return statement.
OptimizeReturn ==
    /\ o_pc = "post"
    /\ IF o_variant = "modules" /\ ~Orderable(o_eval.rating)
       THEN /\ o_pc' = "handler" /\ o_failed' = "log"
            /\ UNCHANGED o_out
       ELSE /\ o_pc' = "done"
            /\ o_out' = Bundle(o_completed, o_eval.rating)
            /\ UNCHANGED o_failed
    /\ UNCHANGED <<o_variant, o_resumes, o_stage, o_stage_calls, o_calls,
                   o_inflight, o_completed, o_eval>>
    /\ UNCHANGED OptimizeOthers

\* The except clause of optimize_match.
OptimizeHandler ==
    /\ o_pc = "handler"
    /\ o_pc' = "done"
    /\ o_out' = HandlerResult(o_completed, o_eval)
    /\ UNCHANGED <<o_variant, o_resumes, o_stage, o_stage_calls, o_calls,
                   o_inflight, o_completed, o_eval, o_failed>>
    /\ UNCHANGED OptimizeOthers

\* ---------------------------------------------------- PlaceholderMatcher
\* placeholder_matcher.py and MODULES/placeholder_matcher.py hold the same
\* patterns and the same three methods; the second wraps the body of
\* extract_skill_placeholders in a handler that raises PlaceholderError
\* again.
\*
\* A template is described by the markers that occur in it: the numbers
\* written in its <SKILL N> markers and how they are written, the markers
\* SKILL_PATTERN does not match, the count of <OverView> markers, whether a
\* <Experience-BulletN-BoldedOverview-JX> and a
\* <Experience-BulletN-Description-JX> marker occur, and whether there is
\* any other text.

\* if 1 <= num <= 10
FIRST_SLOT == 1
LAST_SLOT == 10
\* if len(skill_placeholders) != 10
REQUIRED_SLOTS == 10

\* A range test that lets <SKILL 0> through.
InRange_FromZero(num) == 0 <= num /\ num <= LAST_SLOT

InRange(num) == FIRST_SLOT <= num /\ num <= LAST_SLOT

\* The decimal digits of n, as written in a marker.
RECURSIVE Digits(_)
Digits(n) == IF n < 10 THEN <<n>> ELSE Append(Digits(n \div 10), n % 10)

\* int(match.group(1))
RECURSIVE ParseInt(_)
ParseInt(ds) ==
    IF ds = <<>> THEN 0
    ELSE 10 * ParseInt(SubSeq(ds, 1, Len(ds) - 1)) + ds[Len(ds)]

\* "plain" <SKILL 7>, "nospace" <SKILL7>, "padded" <SKILL 07>
MarkerStyles == {"plain", "nospace", "padded"}
SkillMarker(n, style) ==
    [digits |-> IF style = "padded" THEN <<0>> \o Digits(n) ELSE Digits(n),
     spaces |-> IF style = "nospace" THEN 0 ELSE 1]

\* The matches of SKILL_PATTERN.finditer(text).
SkillMatches(template) == {SkillMarker(n, template.style) : n \in template.numbers}

Template(numbers, style, unmatched, overviews, bolded, description, filler) ==
    [numbers |-> numbers, style |-> style, unmatched |-> unmatched,
     overviews |-> overviews, bolded |-> bolded, description |-> description,
     filler |-> filler]

\* if not text
EmptyTemplate(template) ==
    /\ template.numbers = {} /\ ~template.unmatched /\ template.overviews = 0
    /\ ~template.bolded /\ ~template.description /\ ~template.filler

SlotsReturned(map) == [kind |-> "returned", map |-> map]
\* raise PlaceholderError("Empty text provided")
SlotsRaised == [kind |-> "raised", map |-> [k \in {} |-> 0]]
NoSlots == [kind |-> "none", map |-> [k \in {} |-> 0]]

\* extract_skill_placeholders(text)
extract_skill_placeholders(template) ==
    IF EmptyTemplate(template) THEN SlotsRaised
    ELSE LET kept == {m \in SkillMatches(template) : InRange(ParseInt(m.digits))}
         IN  SlotsReturned(
                [num \in {ParseInt(m.digits) : m \in kept} |->
                    CHOOSE m \in kept : ParseInt(m.digits) = num])

\* validate_template(template_text): every PlaceholderError of its body is
\* caught and turned into False.
validate_template(template) ==
    /\ ~EmptyTemplate(template)
    /\ template.overviews > 0
    /\ extract_skill_placeholders(template).kind = "returned"
    /\ Cardinality(DOMAIN extract_skill_placeholders(template).map) = REQUIRED_SLOTS
    /\ (template.bolded \/ template.description)

\* ---- pair_skills_by_length
\* A skill is (num, text, placeholder); the placeholder is that of the
\* slot num and the text is known by its length.
Skill(num, len) == [num |-> num, len |-> len]

\* An ordering that puts the shortest text first.
Precedes_Ascending(e, x) == e.len <= x.len

\* sorted(..., key=lambda x: len(x[1]), reverse=True) is stable: of two
\* skills of equal length the one that came first stays first.
Precedes(e, x) == e.len >= x.len

RECURSIVE InsertSkill(_, _)
InsertSkill(sorted, x) ==
    IF sorted = <<>> THEN <<x>>
    ELSE IF Precedes(sorted[Len(sorted)], x) THEN Append(sorted, x)
    ELSE Append(InsertSkill(SubSeq(sorted, 1, Len(sorted) - 1), x), sorted[Len(sorted)])

RECURSIVE SortSkills(_)
SortSkills(list) ==
    IF list = <<>> THEN <<>>
    ELSE InsertSkill(SortSkills(SubSeq(list, 1, Len(list) - 1)), list[Len(list)])

\* [(num, skills_texts.get(num, ""), skills_dict[num])
\*  for num in sorted(skills_dict.keys())]
RECURSIVE skills_list(_, _)
skills_list(slots, len) ==
    IF slots = {} THEN <<>>
    ELSE LET hi == CHOOSE n \in slots : \A m \in slots : m <= n
         IN  Append(skills_list(slots \ {hi}, len), Skill(hi, len[hi]))

\* pair_skills_by_length(skills_dict, skills_texts)
pair_skills_by_length(slots, len) ==
    LET sorted_skills == SortSkills(skills_list(slots, len))
        n == Len(sorted_skills)
    IN  [i \in 1..(n \div 2) |->
            [p1 |-> sorted_skills[i].num, v1 |-> sorted_skills[i].len,
             p2 |-> sorted_skills[n + 1 - i].num, v2 |-> sorted_skills[n + 1 - i].len]]

NoTemplate == Template({}, "plain", FALSE, 0, FALSE, FALSE, FALSE)

MatcherIdle ==
    /\ t_pc = "idle" /\ t_template = NoTemplate /\ t_out = NoSlots
    /\ p_pc = "idle" /\ p_slots = {} /\ p_len = [n \in 1..MaxSlots |-> 0] /\ p_pairs = <<>>

MatcherOthers == <<cfgVars, invVars, boVars, refVars, sanVars, skVars, optVars, audVars, lateVars>>

\* PlaceholderMatcher.extract_skill_placeholders(text)
ExtractSkillPlaceholders ==
    /\ t_pc = "extract"
    /\ t_pc' = "done"
    /\ t_out' = extract_skill_placeholders(t_template)
    /\ UNCHANGED <<t_template, p_pc, p_slots, p_len, p_pairs>>
    /\ UNCHANGED MatcherOthers

\* PlaceholderMatcher.validate_template(template_text)
ValidateTemplate ==
    /\ t_pc = "validate"
    /\ t_pc' = "done"
    /\ t_out' = [kind |-> IF validate_template(t_template) THEN "True" ELSE "False",
                 map |-> [k \in {} |-> 0]]
    /\ UNCHANGED <<t_template, p_pc, p_slots, p_len, p_pairs>>
    /\ UNCHANGED MatcherOthers

\* PlaceholderMatcher.pair_skills_by_length(skills_dict, skills_texts)
PairSkillsByLength ==
    /\ p_pc = "ready"
    /\ p_pc' = "done"
    /\ p_pairs' = pair_skills_by_length(p_slots, p_len)
    /\ UNCHANGED <<t_pc, t_template, t_out, p_slots, p_len>>
    /\ UNCHANGED MatcherOthers

\* ------------------------------------------- call_api and its audit sink
\* "src" is api_interface.py over logging_manager.py: log_process calls
\* log_json, which opens and writes the log file with no handler around
\* it, so a write that fails raises into call_api.  "modules" is
\* MODULES/api_interface.py over MODULES/logging_manager.py: log_process
\* and log_api_call catch every exception and print it.

\* A failed write raises into the caller.
SinkRaises(variant) == variant = "src"

\* The exception a failed write raises.
SinkError(k) == [type |-> "OSError", msg |-> "log write failed", attempt |-> k]

\* What goes on during one call_api, in order: the audit writes (ok is
\* false for a write that failed), and the gateway call being issued and
\* resolving (ok is false for an empty response or an exception).
AuditEntry(what, k, ok) == [ev |-> "entry", what |-> what, attempt |-> k, ok |-> ok]
GatewayIssue(k) == [ev |-> "issue", what |-> "", attempt |-> k, ok |-> TRUE]
GatewayResolve(k, ok) == [ev |-> "resolve", what |-> "", attempt |-> k, ok |-> ok]

\* Whether the next write can succeed, fail.
SinkResults == IF a_failures < MaxSinkFailures THEN BOOLEAN ELSE {TRUE}

\* One audit write.
Write(what, ok) ==
    /\ a_log' = Append(a_log, AuditEntry(what, a_attempt, ok))
    /\ a_failures' = IF ok THEN a_failures ELSE a_failures + 1

\* The statement after the write is reached.
Proceeds(ok) == ok \/ ~SinkRaises(a_variant)

\* if CONFIG["LOG_VERBOSE_LEVEL"] in ("advanced", "full"): log_api_call(
\* endpoint="response", ...); MODULES/api_interface.py calls it always.
AuditsResponse == a_variant = "modules" \/ a_verbose

\* A response entry written while the call is still out.
AfterIssue_RespondFirst == "respond"

\* call_litellm is a plain call: the next statement runs once it is back.
AfterIssue == "wait"

AuditReturned(raw_response) ==
    [kind |-> "returned", text |-> raw_response, type |-> None, cause |-> NoError]
AuditRaised(type, cause) == [kind |-> "raised", text |-> None, type |-> type, cause |-> cause]
NoAuditOutput == [kind |-> "none", text |-> None, type |-> None, cause |-> NoError]

AuditIdle ==
    /\ a_pc = "idle" /\ a_variant = "src" /\ a_verbose = FALSE /\ a_attempt = 0
    /\ a_error = NoError /\ a_last_error = NoError /\ a_text = None
    /\ a_log = <<>> /\ a_failures = 0 /\ a_out = NoAuditOutput

AuditCalled ==
    /\ a_pc = "start" /\ a_variant \in {"src", "modules"} /\ a_verbose \in BOOLEAN
    /\ a_attempt = 0 /\ a_error = NoError /\ a_last_error = NoError /\ a_text = None
    /\ a_log = <<>> /\ a_failures = 0 /\ a_out = NoAuditOutput

AuditOthers == <<cfgVars, invVars, boVars, refVars, sanVars, skVars, optVars, pmVars, lateVars>>

\* Lines 68-82: the first log_process call stands outside the try block.
AuditEnter ==
    /\ a_pc = "start"
    /\ a_attempt' = 1
    /\ \E ok \in SinkResults :
         /\ Write("initiating", ok)
         /\ IF Proceeds(ok)
            THEN a_pc' = "loop" /\ UNCHANGED a_out
            ELSE a_pc' = "done" /\ a_out' = AuditRaised("OSError", NoError)
    /\ UNCHANGED <<a_variant, a_verbose, a_error, a_last_error, a_text>>
    /\ UNCHANGED AuditOthers

\* Line 86: the entry of the attempt, written before call_litellm.
AuditRequestEntry ==
    /\ a_pc = "loop"
    /\ LoopGuard(a_attempt)
    /\ \E ok \in SinkResults :
         /\ Write("request", ok)
         /\ IF Proceeds(ok)
            THEN a_pc' = "call" /\ UNCHANGED a_error
            ELSE a_pc' = "except" /\ a_error' = SinkError(a_attempt)
    /\ UNCHANGED <<a_variant, a_verbose, a_attempt, a_last_error, a_text, a_out>>
    /\ UNCHANGED AuditOthers

\* The loop condition is false: the function body ends and None is
\* returned.
AuditFallThrough ==
    /\ a_pc = "loop"
    /\ ~LoopGuard(a_attempt)
    /\ a_pc' = "done"
    /\ a_out' = AuditReturned(None)
    /\ UNCHANGED <<a_variant, a_verbose, a_attempt, a_error, a_last_error, a_text,
                   a_log, a_failures>>
    /\ UNCHANGED AuditOthers

\* Line 88: call_litellm is called.
AuditIssue ==
    /\ a_pc = "call"
    /\ a_pc' = AfterIssue
    /\ a_log' = Append(a_log, GatewayIssue(a_attempt))
    /\ UNCHANGED <<a_variant, a_verbose, a_attempt, a_error, a_last_error, a_text,
                   a_failures, a_out>>
    /\ UNCHANGED AuditOthers

\* Lines 88-96: call_litellm returns or raises; an empty response raises
\* APIInterfaceError.
AuditResolve ==
    /\ a_pc = "wait"
    /\ \E o \in GatewayOutcomes :
         LET e == AttemptException(o, a_attempt) IN
         /\ a_log' = Append(a_log, GatewayResolve(a_attempt, e = NoError))
         /\ IF e = NoError
            THEN a_pc' = "respond" /\ a_text' = o.text /\ UNCHANGED a_error
            ELSE a_pc' = "except" /\ a_error' = e /\ UNCHANGED a_text
    /\ UNCHANGED <<a_variant, a_verbose, a_attempt, a_last_error, a_failures, a_out>>
    /\ UNCHANGED AuditOthers

\* Line 97, then the return of line 107 unless log_api_call comes first.
AuditResponseEntry ==
    /\ a_pc = "respond"
    /\ \E ok \in SinkResults :
         /\ Write("response", ok)
         /\ IF ~Proceeds(ok)
            THEN a_pc' = "except" /\ a_error' = SinkError(a_attempt) /\ UNCHANGED a_out
            ELSE IF AuditsResponse
            THEN a_pc' = "respond2" /\ UNCHANGED <<a_error, a_out>>
            ELSE a_pc' = "done" /\ a_out' = AuditReturned(a_text) /\ UNCHANGED a_error
    /\ UNCHANGED <<a_variant, a_verbose, a_attempt, a_last_error, a_text>>
    /\ UNCHANGED AuditOthers

\* Lines 98-107: log_api_call(endpoint="response", ...), then the return.
AuditResponseRecord ==
    /\ a_pc = "respond2"
    /\ \E ok \in SinkResults :
         /\ Write("response", ok)
         /\ IF Proceeds(ok)
            THEN a_pc' = "done" /\ a_out' = AuditReturned(a_text) /\ UNCHANGED a_error
            ELSE a_pc' = "except" /\ a_error' = SinkError(a_attempt) /\ UNCHANGED a_out
    /\ UNCHANGED <<a_variant, a_verbose, a_attempt, a_last_error, a_text>>
    /\ UNCHANGED AuditOthers

\* Lines 108-126: the handler.  Its own writes stand in no try block, so
\* an exception of theirs leaves call_api in place of what the handler was
\* about to do.
AuditHandle ==
    /\ a_pc = "except"
    /\ a_last_error' = RecordError(a_last_error, a_error)
    /\ \E ok \in SinkResults :
         IF MayRetry(a_attempt)
         THEN /\ Write("retry", ok)
              /\ IF Proceeds(ok)
                 THEN a_pc' = "loop" /\ a_attempt' = NextAttempt(a_attempt) /\ UNCHANGED a_out
                 ELSE /\ a_pc' = "done" /\ a_out' = AuditRaised("OSError", a_last_error')
                      /\ UNCHANGED a_attempt
         ELSE /\ Write("error", ok)
              /\ a_pc' = "done"
              /\ a_out' = IF Proceeds(ok)
                          THEN AuditRaised("APIInterfaceError", a_last_error')
                          ELSE AuditRaised("OSError", a_last_error')
              /\ UNCHANGED a_attempt
    /\ UNCHANGED <<a_variant, a_verbose, a_error, a_text>>
    /\ UNCHANGED AuditOthers

\* ------------------------------------------------------ process_pipeline
\* The loop over job_results, main.py lines 160-173 and MODULES/main.py
\* lines 237-258.  main.py reports through log_process of logging_manager.py
\* (a write that fails raises, as in call_api above); MODULES/main.py
\* reports through print.

\* The variables of every part of the program but the pipeline.
EarlyVars ==
    <<cfgVars, invVars, boVars, refVars, sanVars, skVars, optVars, pmVars, audVars>>
PipelineOthers == <<EarlyVars, idVars, exVars, gwVars, injVars>>

\* Whether the next write of the log can succeed, fail.
LogResults == IF j_failures < MaxLogFailures THEN BOOLEAN ELSE {TRUE}

\* log_process(...) of the loop: nothing is written in MODULES/main.py.
LogWrite(ok) ==
    j_failures' = IF ok \/ ~SinkRaises(j_variant) THEN j_failures ELSE j_failures + 1

\* The statement after the write is reached.
LogProceeds(ok) == ok \/ ~SinkRaises(j_variant)

\* What optimize_match(job_data) can do.  match_optimizer.py finds no
\* resume data and returns None from its handler, whose log_process can
\* raise; MODULES/match_optimizer.py returns the bundle, or None from its
\* handler.
OptimizeResults ==
    IF j_variant = "src"
    THEN {"none"} \cup (IF j_failures < MaxLogFailures THEN {"raise"} ELSE {})
    ELSE {"bundle", "none"}

\* What build_final_resume(optimized_result) can do: the path of the saved
\* document, or ResumeBuilderError.
BuildResults == {"path", "raise"}

PipelineIdle ==
    /\ j_pc = "idle" /\ j_variant = "src" /\ j_jobs = 0 /\ j_index = 0
    /\ j_visited = <<>> /\ j_completed = 0 /\ j_errors = 0 /\ j_failures = 0
    /\ j_out = "none"

\* The state at `for job_data in job_results`, with any number of jobs.
PipelineCalled ==
    /\ j_pc = "loop" /\ j_variant \in {"src", "modules"} /\ j_jobs \in 0..MaxJobs
    /\ j_index = 1
    /\ j_visited = <<>> /\ j_completed = 0 /\ j_errors = 0 /\ j_failures = 0
    /\ j_out = "none"

\* continue, or the end of the loop body.
NextJob == j_pc' = "loop" /\ j_index' = j_index + 1

\* The body up to the call of build_final_resume: the log line (main.py
\* line 162), optimize_match, and the `if not optimized_result` branch.
PipelineOptimize ==
    /\ j_pc = "loop"
    /\ j_index <= j_jobs
    /\ j_visited' = Append(j_visited, j_index)
    /\ \E ok \in LogResults :
         IF ~LogProceeds(ok)
         THEN /\ LogWrite(ok)
              /\ j_pc' = "except"
              /\ UNCHANGED j_index
         ELSE \E optimized_result \in OptimizeResults :
                CASE optimized_result = "raise" ->
                       /\ j_failures' = j_failures + 1
                       /\ j_pc' = "except"
                       /\ UNCHANGED j_index
                  [] optimized_result = "none" ->
                       \E ok2 \in LogResults :
                          /\ LogWrite(ok2)
                          /\ IF LogProceeds(ok2)
                             THEN NextJob
                             ELSE j_pc' = "except" /\ UNCHANGED j_index
                  [] optimized_result = "bundle" ->
                       /\ j_pc' = "build"
                       /\ UNCHANGED <<j_index, j_failures>>
    /\ UNCHANGED <<j_variant, j_jobs, j_completed, j_errors, j_out>>
    /\ UNCHANGED PipelineOthers

\* build_final_resume and the `if final_path` branch.
PipelineBuild ==
    /\ j_pc = "build"
    /\ \E final_path \in BuildResults :
         IF final_path = "raise"
         THEN /\ j_pc' = "except"
              /\ UNCHANGED <<j_index, j_completed, j_failures>>
         ELSE /\ j_completed' = j_completed + 1
              /\ \E ok \in LogResults :
                   /\ LogWrite(ok)
                   /\ IF LogProceeds(ok)
                      THEN NextJob
                      ELSE j_pc' = "except" /\ UNCHANGED j_index
    /\ UNCHANGED <<j_variant, j_jobs, j_visited, j_errors, j_out>>
    /\ UNCHANGED PipelineOthers

\* except Exception as e: the error count and the report; a report that
\* raises leaves the loop for the outer handler, which raises
\* ProcessingError.
PipelineHandle ==
    /\ j_pc = "except"
    /\ j_errors' = j_errors + 1
    /\ \E ok \in LogResults :
         /\ LogWrite(ok)
         /\ IF LogProceeds(ok)
            THEN NextJob /\ UNCHANGED j_out
            ELSE j_pc' = "done" /\ j_out' = "raised" /\ UNCHANGED j_index
    /\ UNCHANGED <<j_variant, j_jobs, j_visited, j_completed>>
    /\ UNCHANGED PipelineOthers

\* The list is exhausted: the function returns.
PipelineReturn ==
    /\ j_pc = "loop"
    /\ j_index > j_jobs
    /\ j_pc' = "done"
    /\ j_out' = "returned"
    /\ UNCHANGED <<j_variant, j_jobs, j_index, j_visited, j_completed, j_errors, j_failures>>
    /\ UNCHANGED PipelineOthers

\* ------------------------------------------- call ids of the audit entries
\* call_api (api_interface.py lines 68-126, MODULES/api_interface.py lines
\* 53-171) and call_litellm (litellm_file_handler.py lines 270-311,
\* MODULES/litellm_file_handler.py) with what they hand to log_process and
\* log_api_call.  Every write is taken to succeed here.

\* An entry that names no call id.
NoId == 0

\* datetime.now().strftime("%Y%m%d_%H%M%S_%f"): the clock as it reads when
\* the statement runs; it does not run backwards.
ClockReadings == {t \in {c_clock, c_clock + 1} : t <= MaxClock}

\* The clock after time.sleep(delay): the delays are at least a second.
AfterSleep(now) == IF now < MaxClock THEN now + 1 ELSE now

\* call_id = datetime.now().strftime(...) in call_litellm, line 276.
GatewayCallId(now) == now

\* One entry: the endpoint (or the kind of process message), the attempt
\* it is written in, and the call id it names.
IdEntry(endpoint, k, id) == [endpoint |-> endpoint, attempt |-> k, call_id |-> id]

\* What the handler does inside call_litellm.
HandlerOutcomes == {"content", "empty", "raise"}

\* The entries of call_litellm: litellm_request, then litellm_response or
\* litellm_error.
GatewayEntries(k, id, handled) ==
    << IdEntry("litellm_request", k, id),
       IdEntry(IF handled = "raise" THEN "litellm_error" ELSE "litellm_response", k, id) >>

\* The entries of call_api before call_litellm: the attempt message, and
\* in MODULES/api_interface.py log_api_call(endpoint="request").
BeforeCall(k) ==
    << IdEntry("attempt", k, c_call_id) >>
    \o (IF c_variant = "modules" THEN << IdEntry("request", k, c_call_id) >> ELSE << >>)

\* The entries of call_api after a response it accepts.
AfterSuccess(k) ==
    (IF c_variant = "src" THEN << IdEntry("successful", k, c_call_id) >>
     ELSE << IdEntry("successful", k, NoId) >>)
    \o (IF c_variant = "modules" \/ c_verbose
        THEN << IdEntry("response", k, c_call_id) >> ELSE << >>)
    \o (IF c_variant = "modules" THEN << IdEntry("completed", k, c_call_id) >> ELSE << >>)

\* The entries of the except clause: the retry message, or the failure
\* message and log_api_call(endpoint="error").
AfterFailureEntries(k) ==
    IF MayRetry(k)
    THEN << IdEntry("retry", k, NoId) >>
    ELSE << IdEntry("failed", k, NoId), IdEntry("error", k, c_call_id) >>

CallIdIdle ==
    /\ c_pc = "idle" /\ c_variant = "src" /\ c_verbose = FALSE /\ c_attempt = 0
    /\ c_call_id = NoId /\ c_clock = 0 /\ c_entries = <<>> /\ c_out = "none"

CallIdCalled ==
    /\ c_pc = "start" /\ c_variant \in {"src", "modules"} /\ c_verbose \in BOOLEAN
    /\ c_attempt = 0 /\ c_call_id = NoId /\ c_clock = 1 /\ c_entries = <<>>
    /\ c_out = "none"

CallIdOthers == <<EarlyVars, pipeVars, exVars, gwVars, injVars>>

\* call_id = generate_call_id(), attempt = 1, and the first message.
CallIdEnter ==
    /\ c_pc = "start"
    /\ c_pc' = "loop"
    /\ c_attempt' = 1
    /\ \E now \in ClockReadings :
         /\ c_clock' = now
         /\ c_call_id' = now
         /\ c_entries' = << IdEntry("initiating", 0, now) >>
    /\ UNCHANGED <<c_variant, c_verbose, c_out>>
    /\ UNCHANGED CallIdOthers

\* One pass of the while loop with the call of call_litellm in it.
CallIdAttempt ==
    /\ c_pc = "loop"
    /\ LoopGuard(c_attempt)
    /\ \E now \in ClockReadings, handled \in HandlerOutcomes :
         LET sofar == c_entries \o BeforeCall(c_attempt)
                        \o GatewayEntries(c_attempt, GatewayCallId(now), handled)
         IN  IF handled = "content"
             THEN /\ c_entries' = sofar \o AfterSuccess(c_attempt)
                  /\ c_clock' = now
                  /\ c_pc' = "done"
                  /\ c_out' = "returned"
                  /\ UNCHANGED c_attempt
             ELSE /\ c_entries' = sofar \o AfterFailureEntries(c_attempt)
                  /\ IF MayRetry(c_attempt)
                     THEN /\ c_attempt' = NextAttempt(c_attempt)
                          /\ c_clock' = AfterSleep(now)
                          /\ UNCHANGED <<c_pc, c_out>>
                     ELSE /\ c_clock' = now
                          /\ c_pc' = "done"
                          /\ c_out' = "raised"
                          /\ UNCHANGED c_attempt
    /\ UNCHANGED <<c_variant, c_verbose, c_call_id>>
    /\ UNCHANGED CallIdOthers

\* The loop condition is false at once: None is returned.
CallIdFallThrough ==
    /\ c_pc = "loop"
    /\ ~LoopGuard(c_attempt)
    /\ c_pc' = "done"
    /\ c_out' = "returned"
    /\ UNCHANGED <<c_variant, c_verbose, c_attempt, c_call_id, c_clock, c_entries>>
    /\ UNCHANGED CallIdOthers

\* ------------------------------------------------------ extract_job_data
\* job_extractor.py lines 192-211 and MODULES/job_extractor.py lines
\* 253-297: the response of call_api is parsed as it stands, and handed to
\* clean_api_response only when that parse raises.

\* The keys job_data.update(...) adds.
MetadataKeys == {"jid", "raw_text", "source_file", "extraction_date"}

\* The attributes of JobData and the keys from_dict reads them from.
JobDataKey ==
    [jid |-> "jid", title |-> "Title", company |-> "Company Name",
     location |-> "Location", field |-> "field", salary |-> "Salary",
     posting_date |-> "posting_date", cleaned_description |-> "cleaned_description",
     raw_text |-> "raw_text", source_file |-> "source_file",
     extraction_date |-> "extraction_date"]

\* JobData.from_dict(data): data.get(key, '') for every attribute.
from_dict(data) ==
    [a \in DOMAIN JobDataKey |->
        IF JobDataKey[a] \in DOMAIN data THEN data[JobDataKey[a]] ELSE ""]

\* job_data.update({...})
WithMetadata(job_data) ==
    [k \in DOMAIN job_data \cup MetadataKeys |->
        IF k \in MetadataKeys THEN "meta" ELSE job_data[k]]

\* The sanitizer fallback of the copy at hand.
Fallback(variant, response, allow) ==
    IF variant = "src" THEN clean_api_response(response, allow)
    ELSE modules_clean_api_response(response)

\* job_data = json.loads(result.strip()): the dict as the model wrote it.
Direct(pairs) == DictOf(pairs, "Title")

NoJobData == [k \in {} |-> ""]

\* The responses call_api hands to extract_job_data: strings.
ExtractResponses == {r \in Responses : r.kind = "str"}

ExtractIdle ==
    /\ x_pc = "idle" /\ x_variant = "src" /\ x_result = StrResponse(<<>>)
    /\ x_allow = FALSE /\ x_path = "none" /\ x_job_data = NoJobData /\ x_out = NoOutput

ExtractCalled ==
    /\ x_pc = "ready" /\ x_variant \in {"src", "modules"}
    /\ x_result \in ExtractResponses /\ x_allow \in BOOLEAN
    /\ x_path = "none" /\ x_job_data = NoJobData /\ x_out = NoOutput

ExtractOthers == <<EarlyVars, pipeVars, idVars, gwVars, injVars>>

\* `if not result`, or a value of json.loads that has no get: the handler
\* of the function raises JobExtractionError.
ExtractRaises ==
    /\ x_pc = "ready"
    /\ \/ Falsy(x_result)
       \/ JsonLoads(StripWs(x_result.s)).kind = "number"
    /\ x_pc' = "done"
    /\ x_path' = IF Falsy(x_result) THEN "none" ELSE "direct"
    /\ x_out' = Raised
    /\ UNCHANGED <<x_variant, x_result, x_allow, x_job_data>>
    /\ UNCHANGED ExtractOthers

\* json.loads(result.strip()) returns a dict, which is used as it is.
ExtractDirect ==
    /\ x_pc = "ready"
    /\ ~Falsy(x_result)
    /\ JsonLoads(StripWs(x_result.s)).kind = "dict"
    /\ x_pc' = "done"
    /\ x_path' = "direct"
    /\ x_job_data' = WithMetadata(Direct(JsonLoads(StripWs(x_result.s)).pairs))
    /\ x_out' = Returned(from_dict(x_job_data'))
    /\ UNCHANGED <<x_variant, x_result, x_allow>>
    /\ UNCHANGED ExtractOthers

\* json.loads raises: job_data = clean_api_response(result).
ExtractFallback ==
    /\ x_pc = "ready"
    /\ ~Falsy(x_result)
    /\ JsonLoads(StripWs(x_result.s)).kind = "error"
    /\ x_pc' = "done"
    /\ x_path' = "fallback"
    /\ LET cleaned == Fallback(x_variant, x_result, x_allow) IN
         IF cleaned.raised
         THEN x_out' = Raised /\ UNCHANGED x_job_data
         ELSE /\ x_job_data' = WithMetadata(cleaned.rec)
              /\ x_out' = Returned(from_dict(x_job_data'))
    /\ UNCHANGED <<x_variant, x_result, x_allow>>
    /\ UNCHANGED ExtractOthers


\* ------------------------------------------- the gateway under call_api
\* call_api (api_interface.py lines 84-126, MODULES/api_interface.py lines
\* 61-171) calls call_litellm once in each pass of its loop; call_litellm
\* hands the messages to LLMHandler.call_api, which with the openai
\* provider calls call_openai (litellm_file_handler.py lines 117-164,
\* MODULES/litellm_file_handler.py lines 149-256) under
\* @retry(stop=stop_after_attempt(3), ...).  Every write of the logs is
\* taken to succeed here.

\* stop_after_attempt(3).
STOP_AFTER_ATTEMPT == 3

\* The stop condition of the decorator, asked after a try that raised:
\* the number of tries made has reached the limit.
GatewayStop_Late(tries) == tries > STOP_AFTER_ATTEMPT

GatewayStop(tries) == tries >= STOP_AFTER_ATTEMPT

\* What one execution of call_openai comes to.  In litellm_file_handler.py
\* the response is built in place and no request leaves the process; in
\* MODULES/litellm_file_handler.py client.chat.completions.create is
\* called once, after which validate_response may raise; a lookup in
\* CONFIG may raise before the request is made.
TryOutcomes ==
    IF g_variant = "src" THEN {"content"}
    ELSE {"content", "invalid", "error", "early"}

\* The requests one execution of call_openai sends to the provider.
RequestsOf(tried) ==
    IF g_variant = "src" \/ tried = "early" THEN 0 ELSE 1

GatewayIdle ==
    /\ g_pc = "idle" /\ g_variant = "src" /\ g_attempt = 0 /\ g_tries = 0
    /\ g_requests = 0 /\ g_failed = <<>> /\ g_out = "none"

GatewayCalled ==
    /\ g_pc = "start" /\ g_variant \in {"src", "modules"} /\ g_attempt = 0
    /\ g_tries = 0 /\ g_requests = 0 /\ g_failed = <<>> /\ g_out = "none"

GatewayOthers == <<EarlyVars, pipeVars, idVars, exVars, injVars>>

\* attempt = 1 before the while loop.
GatewayEnter ==
    /\ g_pc = "start"
    /\ g_pc' = "loop"
    /\ g_attempt' = 1
    /\ UNCHANGED <<g_variant, g_tries, g_requests, g_failed, g_out>>
    /\ UNCHANGED GatewayOthers

\* A pass of the while loop reaches call_litellm, which calls the
\* decorated call_openai.
GatewayCall ==
    /\ g_pc = "loop"
    /\ LoopGuard(g_attempt)
    /\ g_pc' = "try"
    /\ g_tries' = 0
    /\ UNCHANGED <<g_variant, g_attempt, g_requests, g_failed, g_out>>
    /\ UNCHANGED GatewayOthers

\* One execution of call_openai.  A response that validates is returned
\* through call_litellm (response.content, or str(response) in MODULES,
\* neither of them empty here) and call_api returns it.  When the try
\* raises and the decorator stops, RetryError reaches the except clause of
\* call_litellm, LLMError reaches the except clause of call_api, and the
\* attempt has failed: call_api retries or raises.
GatewayTry ==
    /\ g_pc = "try"
    /\ \E tried \in TryOutcomes :
         LET made == g_tries + 1
         IN  /\ g_tries' = made
             /\ g_requests' = g_requests + RequestsOf(tried)
             /\ IF tried = "content"
                THEN /\ g_pc' = "done"
                     /\ g_out' = "returned"
                     /\ UNCHANGED <<g_attempt, g_failed>>
                ELSE IF ~GatewayStop(made)
                THEN UNCHANGED <<g_pc, g_attempt, g_failed, g_out>>
                ELSE /\ g_failed' = Append(g_failed, made)
                     /\ IF MayRetry(g_attempt)
                        THEN /\ g_attempt' = NextAttempt(g_attempt)
                             /\ g_pc' = "loop"
                             /\ UNCHANGED g_out
                        ELSE /\ g_pc' = "done"
                             /\ g_out' = "raised"
                             /\ UNCHANGED g_attempt
    /\ UNCHANGED g_variant
    /\ UNCHANGED GatewayOthers

\* The loop condition is false at once: None is returned.
GatewayFallThrough ==
    /\ g_pc = "loop"
    /\ ~LoopGuard(g_attempt)
    /\ g_pc' = "done"
    /\ g_out' = "returned"
    /\ UNCHANGED <<g_variant, g_attempt, g_tries, g_requests, g_failed>>
    /\ UNCHANGED GatewayOthers


\* ------------------------------------------------------- inject_content
\* resume_builder.py lines 102-144 and MODULES/resume_builder.py lines
\* 143-218, over the bullet markers of a document.  A paragraph of the
\* document holds one bullet marker: the number of the bullet, the field
\* it names ("None" for <Experience-BulletN-JX>, which names no field),
\* the number of the job, and whether its text lies in one run of the
\* paragraph or is split over two.

BulletFieldNames == {"BoldedOverview", "Description", "None"}

BulletMarker(number, name, jobno, split) ==
    [number |-> number, name |-> name, job |-> jobno, split |-> split, replaced |-> FALSE]

\* BULLET_PATTERN (placeholder_matcher.py line 65) matches the marker.
BULLET_PATTERN(para) ==
    ~para.replaced /\ para.name \in {"BoldedOverview", "Description"}

\* f"<Experience-Bullet{i}-BoldedOverview-J1>"
overview_placeholder(i) == [number |-> i, name |-> "BoldedOverview", job |-> 1]

\* f"<Experience-Bullet{i}-J1>"
detail_placeholder(i) == [number |-> i, name |-> "None", job |-> 1]

\* placeholder in para.text: para.text joins the runs.
InParagraph(wanted, para) ==
    /\ ~para.replaced
    /\ para.number = wanted.number /\ para.name = wanted.name /\ para.job = wanted.job

\* replace_placeholder_text(paragraph, placeholder, new_text): the text is
\* replaced in each run that holds the whole placeholder.
replace_placeholder_text(para, wanted) ==
    IF InParagraph(wanted, para) /\ ~para.split
    THEN [para EXCEPT !.replaced = TRUE]
    ELSE para

\* The body of `for i, bullet in enumerate(content.bullets, 1)` for one i.
InjectBullet(doc, i) ==
    [p \in DOMAIN doc |->
        LET first == IF InParagraph(overview_placeholder(i), doc[p])
                     THEN replace_placeholder_text(doc[p], overview_placeholder(i))
                     ELSE doc[p]
        IN  IF InParagraph(detail_placeholder(i), first)
            THEN replace_placeholder_text(first, detail_placeholder(i))
            ELSE first]

\* The bullet loop of inject_content(doc, content, skill_placeholders) over
\* the bullets 1..count.
RECURSIVE inject_content(_, _)
inject_content(doc, count) ==
    IF count = 0 THEN doc
    ELSE InjectBullet(inject_content(doc, count - 1), count)

\* The template text of the document, with its overview marker and its ten
\* skill markers in place.
TemplateOf(doc) ==
    Template(FIRST_SLOT..LAST_SLOT, "plain", FALSE, 1,
             \E p \in DOMAIN doc : BULLET_PATTERN(doc[p]) /\ doc[p].name = "BoldedOverview",
             \E p \in DOMAIN doc : BULLET_PATTERN(doc[p]) /\ doc[p].name = "Description",
             \E p \in DOMAIN doc : ~BULLET_PATTERN(doc[p]))

\* The markers a document is given, and the documents of one or two
\* bullet paragraphs.
BulletMarkers ==
    {BulletMarker(number, name, jobno, split) :
        number \in 1..(MaxBullets + 1), name \in BulletFieldNames,
        jobno \in {1, 2}, split \in BOOLEAN}

Documents ==
    {<<a>> : a \in BulletMarkers} \cup {<<a, b>> : a \in BulletMarkers, b \in BulletMarkers}

InjectIdle ==
    /\ d_pc = "idle" /\ d_doc = <<>> /\ d_bullets = 0 /\ d_valid = FALSE

InjectCalled ==
    /\ d_pc = "validate" /\ d_doc \in Documents /\ d_bullets \in 0..MaxBullets
    /\ d_valid = FALSE

InjectOthers == <<EarlyVars, pipeVars, idVars, exVars, gwVars>>

\* PlaceholderMatcher.validate_template("\n".join(p.text ...))
ValidateDocument ==
    /\ d_pc = "validate"
    /\ d_pc' = "inject"
    /\ d_valid' = validate_template(TemplateOf(d_doc))
    /\ UNCHANGED <<d_doc, d_bullets>>
    /\ UNCHANGED InjectOthers

\* inject_content(doc, content, skill_placeholders)
InjectContent ==
    /\ d_pc = "inject"
    /\ d_pc' = "done"
    /\ d_doc' = inject_content(d_doc, d_bullets)
    /\ UNCHANGED <<d_bullets, d_valid>>
    /\ UNCHANGED InjectOthers

LateIdle == PipelineIdle /\ CallIdIdle /\ ExtractIdle /\ GatewayIdle /\ InjectIdle

RestIdle == SkillsIdle /\ OptimizeIdle /\ MatcherIdle /\ AuditIdle /\ LateIdle

BackoffIdle == b_attempt = 0 /\ b_delay = 0

DefaultDelays ==
    /\ initial_delay = DEFAULT_API_INITIAL_DELAY
    /\ max_delay = DEFAULT_API_MAX_DELAY
    /\ multiplier = DEFAULT_API_BACKOFF_MULTIPLIER

Init ==
    /\ max_attempts \in 0..MaxAttemptsCap
    /\ DefaultDelays
    /\ InvokeInit
    /\ BackoffIdle
    /\ RefineIdle
    /\ SanitizeIdle
    /\ RestIdle

Next == CallApiEnter \/ CallApiAttempt \/ CallApiFallThrough

Spec == Init /\ [][Next]_vars

\* ------------------------------------------------ properties of call_api

\* The gateway calls issued so far, in order.
CallEvents == SelectSeq(events, LAMBDA e : e.ev = "call")

\* A response the orchestrator must treat as failed: an exception from
\* the gateway, or empty content.
FailedResponse(o) == o.kind = "error" \/ o.text = ""

\* C1: an invoke issues at most max_attempts gateway calls, and the i-th
\* call it issues is attempt number i, so no attempt max_attempts+1 exists.
C1_AttemptsWithinCeiling ==
    /\ Len(CallEvents) <= max_attempts
    /\ \A i \in 1..Len(CallEvents) :
         CallEvents[i].attempt = i /\ CallEvents[i].attempt <= max_attempts

C1_Witness ==
    /\ pc = "done" /\ outcome = "raised"
    /\ max_attempts >= 2 /\ Len(CallEvents) = max_attempts

C3_SuccessOrExhaustion ==
    pc = "done" =>
      \/ /\ outcome = "returned"
         /\ Len(CallEvents) >= 1
         /\ ~FailedResponse(CallEvents[Len(CallEvents)].resp)
         /\ result = CallEvents[Len(CallEvents)].resp.text
      \/ /\ outcome = "raised"
         /\ Len(CallEvents) = max_attempts
         /\ \A i \in 1..Len(CallEvents) : FailedResponse(CallEvents[i].resp)

InitialDelays == {1, 2, 3}
Multipliers == {1, 2, 3}
MaxDelays == {10, 60}

\* The attempt of a call event ended in the handler.
FailedCall(ev) == ev.ev = "call" /\ AttemptException(ev.resp, ev.attempt) # NoError

BackoffInit ==
    /\ max_attempts = DEFAULT_API_MAX_ATTEMPTS
    /\ initial_delay \in InitialDelays
    /\ multiplier \in Multipliers
    /\ max_delay \in MaxDelays
    /\ InvokeIdle
    /\ BackoffIdle
    /\ RefineIdle
    /\ SanitizeIdle
    /\ RestIdle

BackoffCall ==
    /\ \E a \in 1..MaxBackoffAttempt :
         /\ b_attempt' = a
         /\ b_delay' = exponential_backoff(a)
    /\ UNCHANGED <<cfgVars, invVars, refVars, sanVars, restVars>>

BackoffNext == BackoffCall

SpecBackoff == BackoffInit /\ [][BackoffNext]_vars

\* ------------------------------------- properties of exponential_backoff

\* multiplier * ... * multiplier, n factors.
Product[n \in 0..(MaxBackoffAttempt + 1)] ==
    IF n = 0 THEN 1 ELSE multiplier * Product[n - 1]

\* The documented delay sequence of the default configuration.
DefaultDelayTable == <<2, 4, 8, 16, 32>>

\* C5: the delay of attempt k >= 1 is min(initial_delay * multiplier^(k-1),
\* max_delay); with 2, 2, 60 it is 2, 4, 8, 16, 32 for attempts 1..5 and 60
\* from attempt 6 on.
C5_BackoffDelays ==
    b_attempt >= 1 =>
      /\ LET uncapped == initial_delay * Product[b_attempt - 1] IN
         b_delay = IF uncapped < max_delay THEN uncapped ELSE max_delay
      /\ DefaultDelays =>
           b_delay = IF b_attempt <= Len(DefaultDelayTable)
                     THEN DefaultDelayTable[b_attempt]
                     ELSE DEFAULT_API_MAX_DELAY

C5_Witness == DefaultDelays /\ b_attempt = 6 /\ b_delay = 60

\* ------------------------------------------------------- refine_section run

RefineInit ==
    /\ max_attempts \in {0, DEFAULT_API_MAX_ATTEMPTS}
    /\ DefaultDelays
    /\ InvokeIdle
    /\ BackoffIdle
    /\ RefineCalled
    /\ SanitizeIdle
    /\ RestIdle

RefineNext == RefineEnter \/ RefineShrink \/ RefineFinish

SpecRefine == RefineInit /\ [][RefineNext]_vars

\* ------------------------------------------ properties of refine_section

ShrinkCalls == SelectSeq(r_calls, LAMBDA c : c.kind = "shrink")
SummaryCalls == SelectSeq(r_calls, LAMBDA c : c.kind = "summarize")

\* C8: one refine issues at most max_iterations shrink requests, whatever
\* the model answers.
C8_ShrinkCallsBounded == Len(ShrinkCalls) <= max_iterations

C8_Witness ==
    /\ r_pc = "done" /\ max_iterations >= 2
    /\ Len(ShrinkCalls) = max_iterations

\* C9: a text that already passes the acceptance test of its category comes
\* back unchanged and costs no model call.
C9_AcceptedTextUntouched ==
    ( /\ r_pc = "done" /\ KnownSection(section_name)
      /\ WithinLimits(original_text, validate_section_limits(section_name)) )
    => /\ r_calls = <<>>
       /\ r_outcome = "returned"
       /\ r_result = original_text

PromptsInit ==
    /\ max_attempts \in {0, DEFAULT_API_MAX_ATTEMPTS}
    /\ DefaultDelays
    /\ InvokeIdle
    /\ BackoffIdle
    /\ RefineCalledAnyPrompts
    /\ SanitizeIdle
    /\ RestIdle

PromptsNext == RefineEnter \/ RefineShrink \/ RefineFinish

SpecPrompts == PromptsInit /\ [][PromptsNext]_vars

\* refine_section raised because a prompt could not be loaded: the section
\* is known and no model call failed.
PromptErrorRaised ==
    /\ r_pc = "done" /\ r_outcome = "raised"
    /\ KnownSection(section_name)
    /\ \A i \in 1..Len(r_calls) : r_calls[i].reply.kind = "text"

\* C21: a refine that fails because a prompt key (or the prompt file) is
\* missing has issued no model call before failing.
C21_ConfigErrorBeforeAnyCall == PromptErrorRaised => r_calls = <<>>

\* ------------------------------------- the iterations of refine_section

\* The text the loop holds when call number i of the invocation is made.
HeldBefore(i) ==
    IF i = 1 THEN original_text ELSE Strip(r_calls[i - 1].reply.text)

\* C25: the iteration count starts at 0 and moves only by +1, in the step
\* that replaces the current text by the result of a shrink request; the
\* k-th shrink request is given the result of the (k-1)-th (the input for
\* k = 1), and the original text comes back only as the input of the
\* summarization request.
C25_IterationOnlyAdvances ==
    /\ []( /\ (r_pc = "start" => iteration = 0)
           /\ iteration = Len(ShrinkCalls)
                 - (IF r_outcome = "raised" /\ Len(ShrinkCalls) > 0
                       /\ ShrinkCalls[Len(ShrinkCalls)].reply.kind # "text"
                    THEN 1 ELSE 0)
           /\ \A i \in 1..Len(r_calls) :
                 /\ r_calls[i].kind = "shrink" =>
                      /\ r_calls[i].input = HeldBefore(i)
                      /\ \A j \in 1..(i - 1) : r_calls[j].kind = "shrink"
                 /\ r_calls[i].kind = "summarize" =>
                      r_calls[i].input = original_text )
    /\ [][ iteration' # iteration =>
             /\ r_pc = "loop"
             /\ iteration' = iteration + 1
             /\ Len(r_calls') = Len(r_calls) + 1
             /\ r_calls'[Len(r_calls')].kind = "shrink"
             /\ r_calls'[Len(r_calls')].input = text
             /\ text' = Strip(r_calls'[Len(r_calls')].reply.text) ]_vars

C25_Witness ==
    /\ r_pc = "done" /\ iteration = 2
    /\ Len(ShrinkCalls) = 2 /\ Len(SummaryCalls) = 1
    /\ ShrinkCalls[2].input # original_text
    /\ SummaryCalls[1].input = original_text

\* C28: the summarization request is made only when the text held at that
\* point (the input, or the result of the last shrink request) still fails
\* the acceptance test of its category.
C28_FallbackOnlyWhenStillFailing ==
    \A i \in 1..Len(r_calls) :
        r_calls[i].kind = "summarize" =>
            ~WithinLimits(HeldBefore(i), validate_section_limits(section_name))

\* ----------------------------------------------------- a sanitizer run

SanitizeInit ==
    /\ max_attempts = DEFAULT_API_MAX_ATTEMPTS
    /\ DefaultDelays
    /\ InvokeIdle
    /\ BackoffIdle
    /\ RefineIdle
    /\ SanitizeCalled
    /\ RestIdle

SanitizeNext == CleanJob \/ CleanJobModules \/ CleanResume

SpecSanitize == SanitizeInit /\ [][SanitizeNext]_vars

\* The required field set of the sanitizer that was called.
RequiredFields == IF s_fn = "resume" THEN ResumeFields ELSE JobFields

\* C6: for every input (a string of any content, an envelope exposing a
\* content field, a mapping with extra or missing keys) the sanitizer
\* returns a record whose key set is exactly the required field set.
C6_ReturnsExactKeySet ==
    s_pc = "done" => (~s_out.raised /\ DOMAIN s_out.rec = RequiredFields)

\* C7: a sanitizer never raises for a string input; every parse, repair or
\* salvage failure ends in a returned record.
C7_NeverRaisesOnString ==
    (s_pc = "done" /\ s_response.kind = "str") => ~s_out.raised

\* --------------------------------------------------- an optimize_skills run

\* The text the tiers work on: the interior of the fence, cut to the outer
\* braces, stripped, single quotes replaced.
TierInput(s) == ReplaceQuotes(StripWs(SliceBraces(StripFences(s))))

\* What the tiers yield, the first that succeeds winning: the direct
\* parse, the parse after the repair pass, the per-field regex search.
TierResult(c) ==
    IF JsonLoads(c).kind = "dict"
    THEN MergeInto(JobDefaults, DictOf(JsonLoads(c).pairs, "Title"))
    ELSE IF JsonLoads(Repair(c)).kind = "dict"
    THEN MergeInto(JobDefaults, DictOf(JsonLoads(Repair(c)).pairs, "Title"))
    ELSE RegexFields(Repair(c))

\* C26: for a string the job sanitizer returns what the first successful
\* tier recovers, direct parse before repair pass before regex salvage; a
\* pair followed by a trailing comma keeps its value, and the all-defaults
\* record comes back only when no tier finds a required field.
C26_FirstTierThatSucceeds ==
    (s_pc = "done" /\ s_fn \in {"job", "modules_job"} /\ s_response.kind = "str") =>
        s_out = Returned(TierResult(TierInput(s_response.s)))

SkillsInit ==
    /\ max_attempts = DEFAULT_API_MAX_ATTEMPTS
    /\ DefaultDelays
    /\ InvokeIdle
    /\ BackoffIdle
    /\ RefineIdle
    /\ SanitizeIdle
    /\ SkillsCalled
    /\ OptimizeIdle
    /\ MatcherIdle
    /\ AuditIdle
    /\ LateIdle

SkillsNext == OptimizeSkills

SpecSkills == SkillsInit /\ [][SkillsNext]_vars

\* The number of commas of a string.
CommaCount(s) == Cardinality({i \in 1..Len(s) : s[i] = ","})

\* The i-th comma-free stretch of s, without the spaces around it.
TrimmedStretch(s, i) == StripWs(Split(s)[i])

\* C11: when the model output splits on commas into a number of items
\* other than 10 the skills stage raises the count-mismatch error after its
\* one model call; when it splits into exactly 10 the stage returns those
\* 10 items, trimmed, in the order given.
C11_ExactlyTenSkills ==
    (k_pc = "done" /\ k_skills /\ k_reply.kind = "text") =>
        /\ k_calls = 1
        /\ IF CommaCount(k_reply.s) + 1 # SKILL_COUNT
           THEN /\ k_out.kind = "raised"
                /\ k_out.why = "Expected 10 skills"
                /\ k_out.got = CommaCount(k_reply.s) + 1
           ELSE /\ k_out.kind = "returned"
                /\ CommaCount(k_out.value) = SKILL_COUNT - 1
                /\ \A i \in 1..SKILL_COUNT :
                     Split(k_out.value)[i] =
                        (IF i = 1 THEN <<>> ELSE <<"w">>) \o TrimmedStretch(k_reply.s, i)

C11_Witness ==
    /\ k_pc = "done" /\ k_skills /\ k_reply.kind = "text"
    /\ CommaCount(k_reply.s) = SKILL_COUNT - 1
    /\ k_reply.s[1] = "w"
    /\ k_out.kind = "returned"
    /\ k_out.value[1] # "w"

\* ---------------------------------------------------- an optimize_match run

OptimizeInit ==
    /\ max_attempts = DEFAULT_API_MAX_ATTEMPTS
    /\ DefaultDelays
    /\ InvokeIdle
    /\ BackoffIdle
    /\ RefineIdle
    /\ SanitizeIdle
    /\ SkillsIdle
    /\ OptimizeCalled
    /\ MatcherIdle
    /\ AuditIdle
    /\ LateIdle

OptimizeNext ==
    \/ OptimizeEnter
    \/ StageBegin
    \/ StageResolve
    \/ RefineIssue
    \/ RefineResolve
    \/ OptimizeReturn
    \/ OptimizeHandler

SpecOptimize == OptimizeInit /\ [][OptimizeNext]_vars

\* C12: optimize_match raises a distinguished error to its caller whenever
\* one of its stages (objective, skills, bullets, evaluation) fails.
C12_StageFailureRaises ==
    (o_pc = "done" /\ o_failed \in StageSet) => o_out.kind = "raised"

\* C13: whenever optimize_match hands a bundle to its caller, all four
\* stages completed and the bundle holds the objective, the skills, the
\* bullets and the evaluation; no bundle holds only some of them.
C13_NoPartialBundle ==
    o_out.kind = "bundle" =>
        /\ o_completed = StageSet
        /\ o_out.fields = StageSet
        /\ o_failed = ""

C13_Witness ==
    /\ o_pc = "done" /\ o_out.kind = "bundle"
    /\ Len(o_calls) > Len(Stages)

\* C14: every bundle optimize_match returns carries a numeric match rating
\* within 0..100; an evaluation reply without match_rating or explanation,
\* or with a non-numeric or out-of-range match_rating, yields no bundle.
C14_RatingWithinRange ==
    o_out.kind = "bundle" =>
        /\ o_out.rating.type = "int"
        /\ o_out.rating.v >= 0
        /\ o_out.rating.v <= 100

\* The model calls issued so far follow the stage order, and each belongs
\* to a stage all of whose predecessors completed.
CallsInStageOrder ==
    /\ \A i, j \in 1..Len(o_calls) :
         i < j => StageRank(o_calls[i]) <= StageRank(o_calls[j])
    /\ \A i \in 1..Len(o_calls) :
         \A st \in StageSet :
            StageRank(st) < StageRank(o_calls[i]) => st \in o_completed

\* C15: within one optimize_match the model calls are issued in the stage
\* order objective, skills, bullets, evaluation, at most one is in flight
\* at any time, and once a stage has failed no model call is issued.
C15_SequentialNoRecovery ==
    /\ [](o_inflight \in {0, 1} /\ CallsInStageOrder)
    /\ [][(o_inflight = 1 => o_calls' = o_calls)
            /\ (o_failed # "" => o_calls' = o_calls)]_vars

C15_Witness ==
    /\ o_pc = "done" /\ o_failed = "bullets"
    /\ Len(o_calls) >= 3
    /\ o_out.kind = "None"

\* ------------------------------------------------ PlaceholderMatcher runs

OtherIdle ==
    /\ max_attempts = DEFAULT_API_MAX_ATTEMPTS
    /\ DefaultDelays
    /\ InvokeIdle
    /\ BackoffIdle
    /\ RefineIdle
    /\ SanitizeIdle
    /\ SkillsIdle
    /\ OptimizeIdle
    /\ AuditIdle
    /\ LateIdle

PairsInit ==
    /\ OtherIdle
    /\ t_pc = "idle" /\ t_template = NoTemplate /\ t_out = NoSlots
    /\ p_pc = "ready"
    /\ p_slots \in SUBSET (1..MaxSlots)
    /\ p_len \in [1..MaxSlots -> 0..MaxValueLen]
    /\ \A n \in 1..MaxSlots : n \notin p_slots => p_len[n] = 0
    /\ p_pairs = <<>>

PairsNext == PairSkillsByLength

SpecPairs == PairsInit /\ [][PairsNext]_vars

\* The slots that occur in the pairs returned.
PairedSlots == {p_pairs[i].p1 : i \in 1..Len(p_pairs)} \cup {p_pairs[i].p2 : i \in 1..Len(p_pairs)}

\* C16: pair_skills_by_length ranks the slots by descending length of
\* their value and pairs rank i with rank n-1-i: it returns floor(n/2)
\* pairs, no slot occurs twice, the first value of a pair is at least as
\* long as the second, an outer pair encloses the lengths of an inner one;
\* for even n every slot is paired, for odd n exactly one slot is left
\* out and it is of middle rank.
C16_LongestWithShortest ==
    p_pc = "done" =>
        LET n == Cardinality(p_slots) IN
        /\ Len(p_pairs) = n \div 2
        /\ PairedSlots \subseteq p_slots
        /\ Cardinality(PairedSlots) = 2 * Len(p_pairs)
        /\ \A i \in 1..Len(p_pairs) :
             /\ p_pairs[i].v1 = p_len[p_pairs[i].p1]
             /\ p_pairs[i].v2 = p_len[p_pairs[i].p2]
             /\ p_pairs[i].v1 >= p_pairs[i].v2
        /\ \A i, j \in 1..Len(p_pairs) :
             i < j => /\ p_pairs[i].v1 >= p_pairs[j].v1
                      /\ p_pairs[j].v2 >= p_pairs[i].v2
        /\ \A m \in p_slots \ PairedSlots :
             \A i \in 1..Len(p_pairs) :
                p_pairs[i].v1 >= p_len[m] /\ p_len[m] >= p_pairs[i].v2

C16_Witness ==
    /\ p_pc = "done"
    /\ Cardinality(p_slots) = 5
    /\ Len(p_pairs) = 2
    /\ p_pairs[1].v1 > p_pairs[2].v1
    /\ p_pairs[2].v2 > p_pairs[1].v2

SlotsInit ==
    /\ OtherIdle
    /\ t_pc = "extract"
    /\ t_template \in {Template(ns, st, un, 0, FALSE, FALSE, fi) :
                          ns \in SUBSET (0..MaxMarkerNumber), st \in MarkerStyles,
                          un \in BOOLEAN, fi \in BOOLEAN}
    /\ t_out = NoSlots
    /\ p_pc = "idle" /\ p_slots = {} /\ p_len = [n \in 1..MaxSlots |-> 0] /\ p_pairs = <<>>

SlotsNext == ExtractSkillPlaceholders

SpecSlots == SlotsInit /\ [][SlotsNext]_vars

SkillFamilies ==
    {1..10, 1..9, 0..9, 1..MaxMarkerNumber, 0..MaxMarkerNumber, {}}

TemplateInit ==
    /\ OtherIdle
    /\ t_pc = "validate"
    /\ t_template \in {Template(ns, st, FALSE, ov, bo, de, fi) :
                          ns \in SkillFamilies, st \in MarkerStyles, ov \in 0..2,
                          bo \in BOOLEAN, de \in BOOLEAN, fi \in BOOLEAN}
    /\ t_out = NoSlots
    /\ p_pc = "idle" /\ p_slots = {} /\ p_len = [n \in 1..MaxSlots |-> 0] /\ p_pairs = <<>>

TemplateNext == ValidateTemplate

SpecTemplate == TemplateInit /\ [][TemplateNext]_vars

\* C18: validate_template returns true only for templates that contain
\* exactly one overview marker and at least one bullet-field marker pair
\* (a BoldedOverview marker together with a Description marker), in
\* addition to the required skill markers.
C18_OneOverviewAndBulletPair ==
    (t_pc = "done" /\ t_out.kind = "True") =>
        /\ t_template.overviews = 1
        /\ t_template.bolded /\ t_template.description
        /\ (1..10) \subseteq t_template.numbers

\* ------------------------------------------- a call_api run, audit writes

AuditInit ==
    /\ max_attempts \in 0..MaxAuditAttempts
    /\ DefaultDelays
    /\ InvokeIdle
    /\ BackoffIdle
    /\ RefineIdle
    /\ SanitizeIdle
    /\ SkillsIdle
    /\ OptimizeIdle
    /\ MatcherIdle
    /\ AuditCalled
    /\ LateIdle

AuditNext ==
    \/ AuditEnter
    \/ AuditRequestEntry
    \/ AuditFallThrough
    \/ AuditIssue
    \/ AuditResolve
    \/ AuditResponseEntry
    \/ AuditResponseRecord
    \/ AuditHandle

SpecAudit == AuditInit /\ [][AuditNext]_vars

LogIndex == 1..Len(a_log)

\* C19: a failure of the audit sink during a call_api never changes its
\* outcome: no gateway call follows one that came back with a non-empty
\* response, a call_api with such a response returns, and the only
\* exception that leaves call_api is the APIInterfaceError of exhaustion.
C19_SinkFailureChangesNothing ==
    /\ \A i, j \in LogIndex :
         (i < j /\ a_log[i].ev = "resolve" /\ a_log[i].ok) => a_log[j].ev # "issue"
    /\ a_pc = "done" =>
         /\ (\E i \in LogIndex : a_log[i].ev = "resolve" /\ a_log[i].ok)
               => a_out.kind = "returned"
         /\ a_out.kind = "raised" => a_out.type = "APIInterfaceError"

\* C20: for every attempt of a call_api the entry of that attempt goes to
\* the sink before the gateway call is issued (and is written, where a
\* failed write raises), and the response, retry or error entry of that
\* attempt goes to the sink only once that call is back.
C20_EntriesBracketTheCall ==
    \A i \in LogIndex :
       /\ a_log[i].ev = "issue" =>
            \E j \in LogIndex :
               /\ j < i
               /\ a_log[j] \in {AuditEntry("request", a_log[i].attempt, ok) : ok \in BOOLEAN}
               /\ SinkRaises(a_variant) => a_log[j].ok
       /\ (a_log[i].ev = "entry" /\ a_log[i].what \in {"response", "retry", "error"}) =>
            /\ \A j \in LogIndex :
                 (a_log[j].ev = "issue" /\ a_log[j].attempt = a_log[i].attempt) =>
                    \E r \in LogIndex :
                       /\ j < r /\ r < i
                       /\ a_log[r].ev = "resolve" /\ a_log[r].attempt = a_log[i].attempt
            /\ a_log[i].what = "response" =>
                 \E r \in LogIndex :
                    /\ r < i /\ a_log[r] = GatewayResolve(a_log[i].attempt, TRUE)

C20_Witness ==
    /\ a_pc = "done" /\ a_out.kind = "returned" /\ a_failures = 0
    /\ \E i \in LogIndex : a_log[i] = AuditEntry("retry", 1, TRUE)
    /\ \E i \in LogIndex : a_log[i] = AuditEntry("response", 2, TRUE)

\* ------------------------------------------------- a process_pipeline run

\* Every part declared before the pipeline is idle.
EarlyIdle ==
    /\ DefaultDelays
    /\ InvokeIdle
    /\ BackoffIdle
    /\ RefineIdle
    /\ SanitizeIdle
    /\ SkillsIdle /\ OptimizeIdle /\ MatcherIdle /\ AuditIdle

PipelineInit ==
    /\ max_attempts = DEFAULT_API_MAX_ATTEMPTS
    /\ EarlyIdle
    /\ PipelineCalled
    /\ CallIdIdle /\ ExtractIdle /\ GatewayIdle /\ InjectIdle

PipelineNext == PipelineOptimize \/ PipelineBuild \/ PipelineHandle \/ PipelineReturn

SpecPipeline == PipelineInit /\ [][PipelineNext]_vars

\* C22: whatever fails while one job is optimized or built, the loop goes
\* on: when process_pipeline is over, every job of the list has been taken
\* up, in order.
C22_EveryJobIsTakenUp ==
    j_pc = "done" => j_visited = [i \in 1..j_jobs |-> i]

\* ------------------------------------------------------- call_api, call ids

CallIdInit ==
    /\ max_attempts \in 0..MaxIdAttempts
    /\ EarlyIdle
    /\ PipelineIdle /\ ExtractIdle /\ GatewayIdle /\ InjectIdle
    /\ CallIdCalled

CallIdNext == CallIdEnter \/ CallIdAttempt \/ CallIdFallThrough

SpecCallId == CallIdInit /\ [][CallIdNext]_vars

\* The attempts of the invoke that are over.
ResolvedAttempts ==
    IF c_pc = "done" THEN {k \in 1..c_attempt : LoopGuard(k)}
    ELSE IF c_pc = "loop" THEN 1..(c_attempt - 1) ELSE {}

RequestEndpoints == {"request", "litellm_request"}
OutcomeEndpoints == {"response", "error", "litellm_response", "litellm_error"}

\* C23: every attempt that is over has left a request entry and a response
\* or error entry, and every entry of the invoke that names a call id names
\* the one generated when the invoke began.
C23_EntriesShareTheCallId ==
    /\ \A k \in ResolvedAttempts :
         /\ \E i \in 1..Len(c_entries) :
               c_entries[i].attempt = k /\ c_entries[i].endpoint \in RequestEndpoints
         /\ \E i \in 1..Len(c_entries) :
               c_entries[i].attempt = k /\ c_entries[i].endpoint \in OutcomeEndpoints
    /\ \A i \in 1..Len(c_entries) :
         c_entries[i].call_id # NoId => c_entries[i].call_id = c_call_id

\* ------------------------------------------------ an extract_job_data run

ExtractInit ==
    /\ max_attempts = DEFAULT_API_MAX_ATTEMPTS
    /\ EarlyIdle
    /\ PipelineIdle /\ CallIdIdle /\ GatewayIdle /\ InjectIdle
    /\ ExtractCalled

ExtractNext == ExtractRaises \/ ExtractDirect \/ ExtractFallback

SpecExtract == ExtractInit /\ [][ExtractNext]_vars

\* C24: the record extract_job_data derives from the response has the
\* required fields (and the metadata) as its keys, on the direct path as on
\* the fallback path.
C24_SameKeysOnBothPaths ==
    (x_pc = "done" /\ ~x_out.raised) =>
        DOMAIN x_job_data = JobFields \cup MetadataKeys


\* ---------------------------------------------- call_api over the gateway

GatewayInit ==
    /\ max_attempts \in 0..MaxGatewayAttempts
    /\ EarlyIdle
    /\ PipelineIdle /\ CallIdIdle /\ ExtractIdle /\ InjectIdle
    /\ GatewayCalled

GatewayNext == GatewayEnter \/ GatewayCall \/ GatewayTry \/ GatewayFallThrough

SpecGateway == GatewayInit /\ [][GatewayNext]_vars

InjectInit ==
    /\ max_attempts = DEFAULT_API_MAX_ATTEMPTS
    /\ EarlyIdle
    /\ PipelineIdle /\ CallIdIdle /\ ExtractIdle /\ GatewayIdle
    /\ InjectCalled

InjectNext == ValidateDocument \/ InjectContent

SpecInject == InjectInit /\ [][InjectNext]_vars

\* C30: after inject_content has run on a document whose template
\* validate_template accepts, no marker of job 1 that BULLET_PATTERN
\* matches and whose bullet number is at most the number of bullets is
\* left in the document.
C30_NoRecognisedMarkerRemains ==
    (d_pc = "done" /\ d_valid) =>
        \A p \in DOMAIN d_doc :
            ~(/\ BULLET_PATTERN(d_doc[p])
              /\ d_doc[p].job = 1
              /\ d_doc[p].number <= d_bullets)

====
